---- MODULE Spec2Model ----
(***************************************************************************)
(* Model of experimental-validation/statistical_analysis.py, class         *)
(* ExperimentalAnalysis: the session object (data, results), the three     *)
(* analyses, calculate_roi and the run_complete_analysis pipeline.         *)
(*                                                                         *)
(* Real numbers are exact rationals (floating-point rounding is not        *)
(* modelled); numpy's inf and nan are values of their own.  The scipy      *)
(* tests (shapiro, ttest_ind, mannwhitneyu) are outside the repository:    *)
(* each returns one of the p-values of PValues, or nan, chosen             *)
(* nondeterministically; on numeric input none of them raises.             *)
(*                                                                         *)
(* The module also models the scripts cleanup_all_workflows.py and         *)
(* cleanup_workflows.py, each with the runs of the repository it works on, *)
(* and the authentication methods of SecureFlowClient in                   *)
(* docs/api/examples/python/client.py; each has a variable and             *)
(* specifications of its own.                                              *)
(***************************************************************************)
EXTENDS Integers, Sequences, FiniteSets, TLC

VARIABLES
    data,            \* self.data: None, or the loaded frame
    results,         \* self.results: category -> entries
    pc,              \* position in run_complete_analysis / how the last call ended
    control_data,    \* control_data of the analysis call in progress or last made
    treatment_data,  \* treatment_data of that call
    lib_calls,       \* the scipy calls that call made: metric -> call record
    roi,             \* the dict calculate_roi last returned, or None
    files,           \* names of the files written so far
    pending,         \* analysis calls running on worker threads: worker -> task
    cleanup_all,     \* cleanup_all_workflows.py: one execution of the script and the repository
    cleanup,         \* cleanup_workflows.py: one execution of the script and the repository
    client           \* docs/api/examples/python/client.py: a SecureFlowClient object

\* the state of the programs other than the analysis session
scripts == <<cleanup_all, cleanup, client>>

\* the state of the analysis session
analysis == <<data, results, pc, control_data, treatment_data, lib_calls, roi, files, pending>>

vars == <<data, results, pc, control_data, treatment_data, lib_calls, roi, files, pending,
          cleanup_all, cleanup, client>>

----------------------------------------------------------------------------
(* Bounds of the model *)

\* longest sample (values of one metric in one frame) drawn for a direct call
MaxLen == 3

\* the measurement values drawn for a direct call
Values == {0, 1}

----------------------------------------------------------------------------
(* Numbers: [kind, num, den] is num/den when kind = "num", else inf, -inf, nan *)

None == [none |-> TRUE]

AbsInt(n) == IF n < 0 THEN -n ELSE n

SignInt(n) == IF n < 0 THEN -1 ELSE IF n = 0 THEN 0 ELSE 1

RECURSIVE GCD(_, _)
GCD(a, b) == IF b = 0 THEN a ELSE GCD(b, a % b)

Num(n, d) ==
    LET s == IF d < 0 THEN -1 ELSE 1
        g == GCD(AbsInt(n), AbsInt(d))
    IN  [kind |-> "num", num |-> (s * n) \div g, den |-> (s * d) \div g]

F(n) == [kind |-> "num", num |-> n, den |-> 1]

NaN == [kind |-> "nan", num |-> 0, den |-> 1]

PosInf == [kind |-> "inf", num |-> 0, den |-> 1]

NegInf == [kind |-> "-inf", num |-> 0, den |-> 1]

IsNum(a) == a.kind = "num"

\* sign of a number that is not nan
SignOf(a) == IF a.kind = "inf" THEN 1 ELSE IF a.kind = "-inf" THEN -1 ELSE SignInt(a.num)

\* a.num/a.den + sign * b.num/b.den over the least common denominator
AddNum(a, b, sign) ==
    LET g == GCD(a.den, b.den)
    IN  Num(a.num * (b.den \div g) + sign * b.num * (a.den \div g), (a.den \div g) * b.den)

\* the product of two rationals, cancelled before multiplying
MulNum(a, b) ==
    LET g1 == GCD(AbsInt(a.num), b.den)
        g2 == GCD(AbsInt(b.num), a.den)
        h1 == IF g1 = 0 THEN 1 ELSE g1
        h2 == IF g2 = 0 THEN 1 ELSE g2
    IN  Num((a.num \div h1) * (b.num \div h2), (a.den \div h2) * (b.den \div h1))

FSub(a, b) ==
    IF a.kind = "nan" \/ b.kind = "nan" THEN NaN
    ELSE IF IsNum(a) /\ IsNum(b) THEN AddNum(a, b, -1)
    ELSE IF IsNum(b) THEN a
    ELSE IF IsNum(a) THEN (IF b.kind = "inf" THEN NegInf ELSE PosInf)
    ELSE IF a.kind = b.kind THEN NaN ELSE a

FAdd(a, b) ==
    IF a.kind = "nan" \/ b.kind = "nan" THEN NaN
    ELSE IF IsNum(a) /\ IsNum(b) THEN AddNum(a, b, 1)
    ELSE IF IsNum(b) THEN a
    ELSE IF IsNum(a) THEN b
    ELSE IF a.kind = b.kind THEN a ELSE NaN

FMul(a, b) ==
    IF a.kind = "nan" \/ b.kind = "nan" THEN NaN
    ELSE IF IsNum(a) /\ IsNum(b) THEN MulNum(a, b)
    ELSE IF SignOf(a) * SignOf(b) = 0 THEN NaN
    ELSE IF SignOf(a) * SignOf(b) > 0 THEN PosInf ELSE NegInf

\* numpy float64 division: x/0 is inf, -inf or nan, never an exception
FDiv(a, b) ==
    IF a.kind = "nan" \/ b.kind = "nan" THEN NaN
    ELSE IF IsNum(a) /\ IsNum(b) THEN
        IF b.num # 0 THEN MulNum(a, Num(b.den, b.num))
        ELSE IF a.num = 0 THEN NaN
        ELSE IF a.num > 0 THEN PosInf ELSE NegInf
    ELSE IF IsNum(b) THEN
        (IF b.num = 0 THEN a ELSE IF SignOf(a) * SignOf(b) > 0 THEN PosInf ELSE NegInf)
    ELSE IF IsNum(a) THEN F(0)
    ELSE NaN

\* Python's a < b on floats: False as soon as one side is nan
FLt(a, b) ==
    IF a.kind = "nan" \/ b.kind = "nan" THEN FALSE
    ELSE IF IsNum(a) /\ IsNum(b) THEN a.num * b.den < b.num * a.den
    ELSE IF a.kind = b.kind THEN FALSE
    ELSE a.kind = "-inf" \/ b.kind = "inf"

FGt(a, b) == FLt(b, a)

\* [kind, sgn, num, den] is sgn * sqrt(num/den): what np.sqrt and a division by it give
Root(sgn, q) == [kind |-> "num", sgn |-> sgn, num |-> q.num, den |-> q.den]

RootNaN == [kind |-> "nan", sgn |-> 0, num |-> 0, den |-> 1]

RootInf(sgn) == [kind |-> "inf", sgn |-> sgn, num |-> 0, den |-> 1]

\* np.sqrt of a rational >= 0
Sqrt(q) == Root(SignInt(q.num), q)

\* a / r for a rational a and a root r >= 0 (float64 division)
DivByRoot(a, r) ==
    IF r.sgn # 0 THEN Root(SignInt(a.num), FDiv(FMul(a, a), Num(r.num, r.den)))
    ELSE IF a.num = 0 THEN RootNaN
    ELSE RootInf(SignInt(a.num))

\* abs() of a root
AbsRoot(r) == [r EXCEPT !.sgn = AbsInt(r.sgn)]

\* r >= 0 (False for nan)
RootNonNeg(r) == r.kind # "nan" /\ r.sgn >= 0

RootIsZero(r) == r.kind = "num" /\ r.sgn = 0

----------------------------------------------------------------------------
(* Frames and samples *)

\* a 'value' that is not a number (a string in the JSON export)
NonNumeric == -1

Rows(metric, group, sample) ==
    [i \in 1..Len(sample) |->
        [metric_name |-> metric, groupId |-> group, value |-> sample[i]]]

\* frame[frame['metric_name'] == metric]['value'].values
ValuesOf(frame, metric) ==
    LET sel == SelectSeq(frame, LAMBDA r : r.metric_name = metric)
    IN  [i \in 1..Len(sel) |-> sel[i].value]

\* a split that keeps every row as soon as one group is listed
C21_RowsOfAnyGroup(frame, groups) ==
    IF Len(groups) = 0 THEN <<>> ELSE frame

\* frame[frame['groupId'].isin(groups)]
RowsOfGroups(frame, groups) ==
    SelectSeq(frame, LAMBDA r : \E i \in 1..Len(groups) : groups[i] = r.groupId)

IsMalformed(sample) == \E i \in 1..Len(sample) : sample[i] = NonNumeric

\* np.sum, summed by halves
RECURSIVE SumSeq(_)
SumSeq(s) ==
    IF Len(s) = 0 THEN 0
    ELSE IF Len(s) = 1 THEN s[1]
    ELSE SumSeq(SubSeq(s, 1, Len(s) \div 2)) + SumSeq(SubSeq(s, Len(s) \div 2 + 1, Len(s)))

RECURSIVE SumSquares(_)
SumSquares(s) ==
    IF Len(s) = 0 THEN 0
    ELSE IF Len(s) = 1 THEN s[1] * s[1]
    ELSE SumSquares(SubSeq(s, 1, Len(s) \div 2))
             + SumSquares(SubSeq(s, Len(s) \div 2 + 1, Len(s)))

\* np.mean
Mean(s) == Num(SumSeq(s), Len(s))

\* np.var (population variance)
Var(s) == Num(Len(s) * SumSquares(s) - SumSeq(s) * SumSeq(s), Len(s) * Len(s))

----------------------------------------------------------------------------
(* scipy.stats, as the analyses call it: the set of p-values a call may return *)

\* 0.05, the significance and normality threshold
Alpha == Num(5, 100)

PValues == {Num(4, 100), Num(5, 100), Num(6, 100)}

TestPValues == PValues \cup {NaN}

NormalityCap == 5000

\* the last 5000 observations taken instead of the first
C16_NormalitySampleTail(x) ==
    IF Len(x) > NormalityCap THEN SubSeq(x, Len(x) - NormalityCap + 1, Len(x)) ELSE x

\* control[:5000] if len(control) > 5000 else control
NormalitySample(x) == IF Len(x) > NormalityCap THEN SubSeq(x, 1, NormalityCap) ELSE x

\* shapiro(x)[1]; fewer than 3 observations give nan
shapiro(x) == IF Len(x) < 3 THEN {NaN} ELSE PValues

\* ttest_ind(a, b, alternative=...)[1]
ttest_ind(a, b, alternative) == TestPValues

\* mannwhitneyu(a, b, alternative=...)[1]
mannwhitneyu(a, b, alternative) == TestPValues

----------------------------------------------------------------------------
(* The pieces of one metric's computation *)

vitals == <<"core_web_vitals_lcp", "core_web_vitals_fid", "core_web_vitals_cls">>

metrics == <<"user_session_duration", "user_pages_visited",
             "user_feature_adoption", "user_task_completion">>

ScanDuration == "security_scan_duration"

SecurityNames == {ScanDuration, "security_vulnerabilities_total", "security_false_positives"}

Range(s) == {s[i] : i \in 1..Len(s)}

MetricNames == Range(vitals) \cup SecurityNames \cup Range(metrics)

\* p_normal_control > 0.05 and p_normal_treatment > 0.05
BothNormal(p_normal_control, p_normal_treatment) ==
    FGt(p_normal_control, Alpha) /\ FGt(p_normal_treatment, Alpha)

\* the scipy function the web-vitals branch calls
WebVitalsTest(p_normal_control, p_normal_treatment) ==
    IF BothNormal(p_normal_control, p_normal_treatment) THEN "ttest_ind" ELSE "mannwhitneyu"

TestLabel(test) == IF test = "ttest_ind" THEN "Independent t-test" ELSE "Mann-Whitney U"

C1_SignificantOrEqual(p_value) == ~ FGt(p_value, Alpha) /\ p_value.kind # "nan"

\* 'significant': p_value < 0.05
Significant(p_value) == FLt(p_value, Alpha)

\* np.sqrt((np.var(control) + np.var(treatment)) / 2)
PooledStd(control, treatment) == Sqrt(FDiv(FAdd(Var(control), Var(treatment)), F(2)))

C8_WebCohensDUnguarded(control, treatment) ==
    DivByRoot(FSub(Mean(treatment), Mean(control)), PooledStd(control, treatment))

\* web vitals: (mean_treatment - mean_control) / pooled_std if pooled_std > 0 else 0
WebCohensD(control, treatment) ==
    LET pooled_std == PooledStd(control, treatment)
    IN  IF pooled_std.sgn > 0
        THEN DivByRoot(FSub(Mean(treatment), Mean(control)), pooled_std)
        ELSE Root(0, F(0))

\* milliseconds per minute: ['value'].values / 60000
MsPerMinute == 60000

\* np.mean(values / 60000)
MeanMinutes(values) == FDiv(Mean(values), F(MsPerMinute))

\* security works on minutes, times = values / 60000: mean_control - mean_treatment and
\* pooled_std both carry the factor 1/60000, so their quotient is the quotient of the
\* millisecond figures, and pooled_std > 0 exactly when the millisecond one is
C7_SecurityCohensDSigned(control, treatment) ==
    LET pooled_std == PooledStd(control, treatment)
    IN  IF pooled_std.sgn > 0
        THEN DivByRoot(FSub(Mean(control), Mean(treatment)), pooled_std)
        ELSE Root(0, F(0))

\* security: abs((mean_control - mean_treatment) / pooled_std) if pooled_std > 0 else 0
SecurityCohensD(control, treatment) ==
    LET pooled_std == PooledStd(control, treatment)
    IN  IF pooled_std.sgn > 0
        THEN AbsRoot(DivByRoot(FSub(Mean(control), Mean(treatment)), pooled_std))
        ELSE Root(0, F(0))

\* engagement: (mean_treatment - mean_control) / pooled_std if pooled_std > 0 else 0
EngagementCohensD(control, treatment) ==
    LET pooled_std == PooledStd(control, treatment)
    IN  IF pooled_std.sgn > 0
        THEN DivByRoot(FSub(Mean(treatment), Mean(control)), pooled_std)
        ELSE Root(0, F(0))

\* the reduction taken relative to the treatment mean
C20_ReductionOverTreatment(mean_control, mean_treatment) ==
    FMul(FDiv(FSub(mean_control, mean_treatment), mean_treatment), F(100))

\* ((mean_control - mean_treatment) / mean_control) * 100, web vitals and security
ReductionPercent(mean_control, mean_treatment) ==
    FMul(FDiv(FSub(mean_control, mean_treatment), mean_control), F(100))

\* engagement scored with the lower-is-better formula
C17_IncreasePercentReversed(mean_control, mean_treatment) ==
    IF FGt(mean_control, F(0))
    THEN FMul(FDiv(FSub(mean_control, mean_treatment), mean_control), F(100))
    ELSE F(0)

\* (mean_treatment - mean_control) / mean_control * 100 if mean_control > 0 else 0
IncreasePercent(mean_control, mean_treatment) ==
    IF FGt(mean_control, F(0))
    THEN FMul(FDiv(FSub(mean_treatment, mean_control), mean_control), F(100))
    ELSE F(0)

\* se**2 = (n_c + n_t) / (n_c * n_t) + cohens_d**2 / (2 * (n_c + n_t))
SeSquared(cohens_d, n_control, n_treatment) ==
    FAdd(Num(n_control + n_treatment, n_control * n_treatment),
         FDiv(Num(cohens_d.num, cohens_d.den), F(2 * (n_control + n_treatment))))

\* cohens_d + side * 1.96 * se, kept as its two terms; abs says whether abs() was applied
CIBound(cohens_d, n_control, n_treatment, side) ==
    [center |-> cohens_d,
     half   |-> Sqrt(FMul(Num(196 * 196, 100 * 100),
                          SeSquared(cohens_d, n_control, n_treatment))),
     side   |-> side,
     abs    |-> FALSE]

AbsBound(b) == [b EXCEPT !.abs = TRUE]

\* results[vital] = {...}, lines 133-145
WebVitalReport(control, treatment, test, p_value) ==
    LET mean_control   == Mean(control)
        mean_treatment == Mean(treatment)
        cohens_d       == WebCohensD(control, treatment)
    IN  [test_used             |-> TestLabel(test),
         p_value               |-> p_value,
         cohens_d              |-> AbsRoot(cohens_d),
         ci_lower              |-> AbsBound(CIBound(cohens_d, Len(control), Len(treatment), -1)),
         ci_upper              |-> AbsBound(CIBound(cohens_d, Len(control), Len(treatment), 1)),
         mean_control          |-> mean_control,
         mean_treatment        |-> mean_treatment,
         improvement_percent   |-> ReductionPercent(mean_control, mean_treatment),
         significant           |-> Significant(p_value),
         sample_size_control   |-> Len(control),
         sample_size_treatment |-> Len(treatment)]

\* the record of the scipy calls made for one metric
LibCall(normality, p_normal_control, p_normal_treatment, test, alternative) ==
    [normality          |-> normality,
     p_normal_control   |-> p_normal_control,
     p_normal_treatment |-> p_normal_treatment,
     test               |-> test,
     alternative        |-> alternative]

\* the label read off the signed value, without abs()
C19_InterpretSigned(d) ==
    IF d.kind = "num" /\ (d.sgn <= 0 \/ 25 * d.num < d.den) THEN "negligible"
    ELSE IF d.kind = "num" /\ 4 * d.num < d.den THEN "small"
    ELSE IF d.kind = "num" /\ 25 * d.num < 16 * d.den THEN "medium"
    ELSE "large"

\* _interpret_cohens_d(d), lines 507-517, for d = sgn * sqrt(num/den): abs(d) < 0.2 is
\* num/den < 1/25, < 0.5 is < 1/4, < 0.8 is < 16/25; nan and inf fall through to large
interpret_cohens_d(d) ==
    IF d.kind = "num" /\ 25 * d.num < d.den THEN "negligible"
    ELSE IF d.kind = "num" /\ 4 * d.num < d.den THEN "small"
    ELSE IF d.kind = "num" /\ 25 * d.num < 16 * d.den THEN "medium"
    ELSE "large"

\* the call record with the effect-size label the analysis prints, lines 155 and 197
Printed(call, d) == [effect_label |-> interpret_cohens_d(d)] @@ call

\* the call record with the two arrays handed to shapiro
Tested(call, x_control, x_treatment) ==
    [shapiro_control |-> x_control, shapiro_treatment |-> x_treatment] @@ call

NoEntry == [none |-> TRUE]

Skip == [kind |-> "skip", entry |-> NoEntry, call |-> NoEntry]

Raise == [kind |-> "raise", entry |-> NoEntry, call |-> NoEntry]

Report(entry, call) == [kind |-> "report", entry |-> entry, call |-> call]

----------------------------------------------------------------------------
(* The three analyses: the set of ways one call can end *)

EmptyDict == <<>>

Put(dict, key, value) == (key :> value) @@ dict

\* one pass of the loop body of analyze_web_vitals, lines 96-145
WebVitalStep(vital, cd, td) ==
    LET control   == ValuesOf(cd, vital)
        treatment == ValuesOf(td, vital)
    IN  IF Len(control) = 0 \/ Len(treatment) = 0 THEN {Skip}
        ELSE IF IsMalformed(control) \/ IsMalformed(treatment) THEN {Raise}
        ELSE UNION {
               { Report(WebVitalReport(control, treatment, WebVitalsTest(pn[1], pn[2]), p),
                        Printed(Tested(LibCall(TRUE, pn[1], pn[2],
                                               WebVitalsTest(pn[1], pn[2]), "less"),
                                       NormalitySample(control), NormalitySample(treatment)),
                                AbsRoot(WebCohensD(control, treatment)))) :
                   p \in (IF WebVitalsTest(pn[1], pn[2]) = "ttest_ind"
                          THEN ttest_ind(treatment, control, "less")
                          ELSE mannwhitneyu(treatment, control, "less")) } :
               pn \in shapiro(NormalitySample(control)) \X shapiro(NormalitySample(treatment)) }

NoRun == [raised |-> FALSE, results |-> EmptyDict, calls |-> EmptyDict]

\* the loop ending at a metric it should have skipped
C5_AfterSkipStops(run, name, step) ==
    IF run.raised THEN run
    ELSE IF step.kind \in {"raise", "skip"} THEN [run EXCEPT !.raised = TRUE]
    ELSE [raised  |-> FALSE,
          results |-> Put(run.results, name, step.entry),
          calls   |-> Put(run.calls, name, step.call)]

\* the loop's state after one more metric: an exception ends the loop
After(run, name, step) ==
    IF run.raised \/ step.kind = "skip" THEN run
    ELSE IF step.kind = "raise" THEN [run EXCEPT !.raised = TRUE]
    ELSE [raised  |-> FALSE,
          results |-> Put(run.results, name, step.entry),
          calls   |-> Put(run.calls, name, step.call)]

\* for vital in vitals[:i]: ...
RECURSIVE WebVitalsLoop(_, _, _)
WebVitalsLoop(i, cd, td) ==
    IF i = 0 THEN {NoRun}
    ELSE UNION { IF run.raised THEN {run}
                 ELSE { After(run, vitals[i], step) : step \in WebVitalStep(vitals[i], cd, td) } :
                 run \in WebVitalsLoop(i - 1, cd, td) }

\* results = {...}, lines 199-206
DetectionFields(control, treatment, p_value) ==
    LET mean_control   == MeanMinutes(control)
        mean_treatment == MeanMinutes(treatment)
    IN  [detection_time_reduction |-> ReductionPercent(mean_control, mean_treatment),
         mean_control_minutes     |-> mean_control,
         mean_treatment_minutes   |-> mean_treatment,
         p_value                  |-> p_value,
         cohens_d                 |-> SecurityCohensD(control, treatment),
         significant              |-> Significant(p_value)]

\* lines 171-209: the detection-time part
DetectionStep(cd, td) ==
    LET control   == ValuesOf(cd, ScanDuration)
        treatment == ValuesOf(td, ScanDuration)
    IN  IF IsMalformed(control) \/ IsMalformed(treatment) THEN {Raise}
        ELSE IF Len(control) > 0 /\ Len(treatment) > 0
        THEN { Report(DetectionFields(control, treatment, p),
                      Printed(LibCall(FALSE, NaN, NaN, "ttest_ind", "less"),
                              SecurityCohensD(control, treatment))) :
                 p \in ttest_ind(treatment, control, "less") }
        ELSE {Skip}

\* (total_detections - total_false_positives) / total_detections * 100 if total_detections > 0 else 0
Accuracy(total_detections, total_false_positives) ==
    IF total_detections > 0
    THEN FMul(Num(total_detections - total_false_positives, total_detections), F(100))
    ELSE F(0)

\* a false-positive rate taken over detections and false positives together
C25_FalsePositiveShare(total_detections, total_false_positives) ==
    IF total_detections > 0
    THEN FMul(Num(total_false_positives, total_detections + total_false_positives), F(100))
    ELSE F(0)

\* total_false_positives / total_detections * 100 if total_detections > 0 else 0
FalsePositiveRate(total_detections, total_false_positives) ==
    IF total_detections > 0
    THEN FMul(Num(total_false_positives, total_detections), F(100))
    ELSE F(0)

\* lines 211-234: the accuracy part, from treatment_data alone (numeric values)
WithAccuracy(fields, td) ==
    LET vulnerabilities == ValuesOf(td, "security_vulnerabilities_total")
        false_positives == ValuesOf(td, "security_false_positives")
    IN  IF Len(vulnerabilities) > 0 /\ Len(false_positives) > 0
        THEN Put(Put(fields, "accuracy",
                     Accuracy(SumSeq(vulnerabilities), SumSeq(false_positives))),
                 "false_positive_rate",
                 FalsePositiveRate(SumSeq(vulnerabilities), SumSeq(false_positives)))
        ELSE fields

\* the ways analyze_security_metrics can end
SecurityRuns(cd, td) ==
    { IF step.kind = "raise" THEN [NoRun EXCEPT !.raised = TRUE]
      ELSE IF step.kind = "skip"
      THEN [NoRun EXCEPT !.results = WithAccuracy(EmptyDict, td)]
      ELSE [raised  |-> FALSE,
            results |-> WithAccuracy(step.entry, td),
            calls   |-> Put(EmptyDict, ScanDuration, step.call)] :
        step \in DetectionStep(cd, td) }

\* an engagement report that also carries the sample sizes
C15_EngagementReportSized(control, treatment, p_value) ==
    [mean_control          |-> Mean(control),
     mean_treatment        |-> Mean(treatment),
     improvement_percent   |-> IncreasePercent(Mean(control), Mean(treatment)),
     p_value               |-> p_value,
     cohens_d              |-> AbsRoot(EngagementCohensD(control, treatment)),
     significant           |-> Significant(p_value),
     sample_size_control   |-> Len(control),
     sample_size_treatment |-> Len(treatment)]

\* results[metric] = {...}, lines 273-280
EngagementReport(control, treatment, p_value) ==
    LET mean_control   == Mean(control)
        mean_treatment == Mean(treatment)
    IN  [mean_control        |-> mean_control,
         mean_treatment      |-> mean_treatment,
         improvement_percent |-> IncreasePercent(mean_control, mean_treatment),
         p_value             |-> p_value,
         cohens_d            |-> AbsRoot(EngagementCohensD(control, treatment)),
         significant         |-> Significant(p_value)]

\* the loop body writing a zero-filled report for a metric without both samples
C4_EngagementStepZeroFilled(metric, cd, td) ==
    LET control   == ValuesOf(cd, metric)
        treatment == ValuesOf(td, metric)
    IN  IF Len(control) > 0 /\ Len(treatment) > 0
        THEN IF IsMalformed(control) \/ IsMalformed(treatment) THEN {Raise}
             ELSE { Report(EngagementReport(control, treatment, p),
                           LibCall(FALSE, NaN, NaN, "ttest_ind", "greater")) :
                      p \in ttest_ind(treatment, control, "greater") }
        ELSE { Report([mean_control        |-> F(0),
                       mean_treatment      |-> F(0),
                       improvement_percent |-> F(0),
                       p_value             |-> NaN,
                       cohens_d            |-> Root(0, F(0)),
                       significant         |-> FALSE],
                      LibCall(FALSE, NaN, NaN, "none", "greater")) }

\* one pass of the loop body of analyze_user_engagement, lines 254-280
EngagementStep(metric, cd, td) ==
    LET control   == ValuesOf(cd, metric)
        treatment == ValuesOf(td, metric)
    IN  IF Len(control) > 0 /\ Len(treatment) > 0
        THEN IF IsMalformed(control) \/ IsMalformed(treatment) THEN {Raise}
             ELSE { Report(EngagementReport(control, treatment, p),
                           LibCall(FALSE, NaN, NaN, "ttest_ind", "greater")) :
                      p \in ttest_ind(treatment, control, "greater") }
        ELSE {Skip}

\* for metric in metrics[:i]: ...
RECURSIVE EngagementLoop(_, _, _)
EngagementLoop(i, cd, td) ==
    IF i = 0 THEN {NoRun}
    ELSE UNION { IF run.raised THEN {run}
                 ELSE { After(run, metrics[i], step) : step \in EngagementStep(metrics[i], cd, td) } :
                 run \in EngagementLoop(i - 1, cd, td) }

----------------------------------------------------------------------------
(* calculate_roi: the assumptions and the report, lines 326-367 *)

AnnualRevenue == 1000000

DevelopmentCost == 50000

AnnualOperationalCost == 20000

AnnualSecurityCost == 100000

\* performance_improvement = 0.45
PerformanceImprovement == Num(45, 100)

\* security_time_savings = 0.93
SecurityTimeSavings == Num(93, 100)

\* user_engagement_increase = 0.67
UserEngagementIncrease == Num(67, 100)

\* the whole performance gain taken as revenue gain
C11_ConversionShareWhole == Num(1, 1)

\* the fixed discount factor: conversion_improvement = performance_improvement * 0.1
ConversionShare == Num(1, 10)

\* the return on investment computed on the benefit, the cost not subtracted
C12_ROIReportGross(given) ==
    LET conversion_improvement == FMul(PerformanceImprovement, ConversionShare)
        revenue_increase       == FMul(F(AnnualRevenue), conversion_improvement)
        security_cost_savings  == FMul(F(AnnualSecurityCost), SecurityTimeSavings)
        total_benefit          == FAdd(revenue_increase, security_cost_savings)
        total_cost             == F(DevelopmentCost + AnnualOperationalCost)
    IN  [revenue_increase |-> revenue_increase,
         cost_savings     |-> security_cost_savings,
         total_benefit    |-> total_benefit,
         roi_percent      |-> FMul(FDiv(total_benefit, total_cost), F(100)),
         payback_months   |-> FMul(FDiv(total_cost, total_benefit), F(12))]

\* calculate_roi(results): the dict it returns
ROIReport(given) ==
    LET conversion_improvement == FMul(PerformanceImprovement, ConversionShare)
        revenue_increase       == FMul(F(AnnualRevenue), conversion_improvement)
        security_cost_savings  == FMul(F(AnnualSecurityCost), SecurityTimeSavings)
        total_benefit          == FAdd(revenue_increase, security_cost_savings)
        total_cost             == F(DevelopmentCost + AnnualOperationalCost)
    IN  [revenue_increase |-> revenue_increase,
         cost_savings     |-> security_cost_savings,
         total_benefit    |-> total_benefit,
         roi_percent      |-> FMul(FDiv(FSub(total_benefit, total_cost), total_cost), F(100)),
         payback_months   |-> FMul(FDiv(total_cost, total_benefit), F(12))]

----------------------------------------------------------------------------
(* cleanup_all_workflows.py: the script and the runs of the repository.      *)
(* A run is numbered in order of creation; created_at, an ISO-8601 UTC       *)
(* timestamp that the script compares as a string, that is chronologically,  *)
(* is modelled as a number, and two consecutive runs share each timestamp.   *)
(* A GET or DELETE request either succeeds or fails (any RequestException    *)
(* or error status), chosen nondeterministically.                            *)

\* the most requests that fail during one execution of a script
MaxFailures == 2

\* the most runs beyond the target in a repository that fits one page
MaxExcess == 2

TARGET_TOTAL_RUNS == 80

per_page == 100

\* a workflow run as the API returns it
Run(n) == [id |-> n, created_at |-> (n + 1) \div 2]

\* the repositories an execution may find: empty, around the target, around a full page
RepoSizes ==
    {0} \cup ((TARGET_TOTAL_RUNS - 1)..(TARGET_TOTAL_RUNS + MaxExcess))
        \cup {per_page, per_page + 1}

\* the runs of the repository in the order the API lists them, newest first
Listing(server) ==
    LET newest == per_page + 1
        ids    == SelectSeq([k \in 1..newest |-> newest + 1 - k], LAMBDA n : n \in server)
    IN  [k \in 1..Len(ids) |-> Run(ids[k])]

\* data.get('workflow_runs', []) of the answer to .../actions/runs?page=..&per_page=..
WorkflowRunsPage(server, page) ==
    LET listed == Listing(server)
        last   == IF page * per_page < Len(listed) THEN page * per_page ELSE Len(listed)
    IN  SubSeq(listed, (page - 1) * per_page + 1, last)

\* all_runs.sort(key=lambda x: x['created_at']): stable, oldest first
SortByCreatedAt(runs) ==
    LET place == [i \in 1..Len(runs) |->
                    Cardinality({ j \in 1..Len(runs) :
                                    \/ runs[j].created_at < runs[i].created_at
                                    \/ /\ runs[j].created_at = runs[i].created_at
                                       /\ j <= i })]
    IN  [k \in 1..Len(runs) |-> runs[CHOOSE i \in 1..Len(runs) : place[i] = k]]

\* what the user may type at a confirmation prompt
Answers == {"DELETE", "delete", " yes", "Y", "y", "n", ""}

\* no execution of cleanup_all_workflows.py yet
CleanupAllNotRun ==
    [step                |-> "idle",   \* idle, fetch, plan, confirm, delete or ended
     server              |-> {},       \* ids of the runs in the repository
     found               |-> {},       \* ids of the runs there when the script started
     token               |-> FALSE,    \* GITHUB_TOKEN is set
     DRY_RUN             |-> FALSE,
     page                |-> 1,
     all_runs            |-> <<>>,
     runs_to_delete_list |-> <<>>,
     runs_to_keep        |-> <<>>,
     attempted           |-> 0,        \* iterations of the deletion loop made
     deleted_count       |-> 0,
     failed_count        |-> 0,
     failed_gets         |-> 0,        \* GET requests that failed
     requests            |-> <<>>,     \* ids of the runs a DELETE request was sent for
     confirm             |-> "",       \* what the user typed
     said                |-> ""]       \* how the script ended

\* main, lines 92-101: the script starts on a repository of size runs
cleanup_all_main(size, token, dry_run) ==
    /\ cleanup_all.step \in {"idle", "ended"}
    /\ cleanup_all' = [CleanupAllNotRun EXCEPT
                          !.server  = 1..size,
                          !.found   = 1..size,
                          !.token   = token,
                          !.DRY_RUN = dry_run,
                          !.step    = IF token THEN "fetch" ELSE "ended",
                          !.said    = IF token THEN "" ELSE "no_token"]
    /\ UNCHANGED <<analysis, cleanup, client>>

\* get_all_workflow_runs, lines 61-84: one turn of the loop, and the sort when it ends
get_all_workflow_runs ==
    /\ cleanup_all.step = "fetch"
    /\ \/ \* if not response: break
          /\ cleanup_all.failed_gets + cleanup_all.failed_count < MaxFailures
          /\ cleanup_all' = [cleanup_all EXCEPT
                                !.failed_gets = @ + 1,
                                !.all_runs    = SortByCreatedAt(@),
                                !.step        = "plan"]
       \/ LET runs == WorkflowRunsPage(cleanup_all.server, cleanup_all.page)
          IN  cleanup_all' =
                  IF runs = <<>>
                  THEN [cleanup_all EXCEPT !.all_runs = SortByCreatedAt(@),
                                           !.step     = "plan"]
                  ELSE IF Len(runs) < per_page
                  THEN [cleanup_all EXCEPT !.all_runs = SortByCreatedAt(@ \o runs),
                                           !.step     = "plan"]
                  ELSE [cleanup_all EXCEPT !.all_runs = @ \o runs,
                                           !.page     = @ + 1]
    /\ UNCHANGED <<analysis, cleanup, client>>

\* main, lines 104-159: the count, the deletion plan and the dry run
cleanup_all_plan ==
    /\ cleanup_all.step = "plan"
    /\ LET all_runs       == cleanup_all.all_runs
           total_runs     == Len(all_runs)
           runs_to_delete == total_runs - TARGET_TOTAL_RUNS
       IN  cleanup_all' =
               IF total_runs <= TARGET_TOTAL_RUNS
               THEN [cleanup_all EXCEPT !.step = "ended", !.said = "no_cleanup"]
               ELSE [cleanup_all EXCEPT
                        !.runs_to_delete_list = SubSeq(all_runs, 1, runs_to_delete),
                        !.runs_to_keep        = SubSeq(all_runs, runs_to_delete + 1, total_runs),
                        !.step = IF cleanup_all.DRY_RUN THEN "ended" ELSE "confirm",
                        !.said = IF cleanup_all.DRY_RUN THEN "dry_run" ELSE ""]
    /\ UNCHANGED <<analysis, cleanup, client>>

\* a prompt that takes the word in either case
C26_ConfirmAnyCase(typed) ==
    /\ cleanup_all.step = "confirm"
    /\ cleanup_all' =
           IF typed \notin {"DELETE", "delete"}
           THEN [cleanup_all EXCEPT !.confirm = typed, !.step = "ended", !.said = "cancelled"]
           ELSE [cleanup_all EXCEPT !.confirm = typed, !.step = "delete"]
    /\ UNCHANGED <<analysis, cleanup, client>>

\* main, lines 161-173: the confirmation prompt
cleanup_all_confirm(typed) ==
    /\ cleanup_all.step = "confirm"
    /\ cleanup_all' =
           IF typed # "DELETE"
           THEN [cleanup_all EXCEPT !.confirm = typed, !.step = "ended", !.said = "cancelled"]
           ELSE [cleanup_all EXCEPT !.confirm = typed, !.step = "delete"]
    /\ UNCHANGED <<analysis, cleanup, client>>

\* a deletion loop that gives up at the first failed request
C27_DeleteStopsOnFailure ==
    /\ cleanup_all.step = "delete"
    /\ cleanup_all.attempted < Len(cleanup_all.runs_to_delete_list)
    /\ LET run_id == cleanup_all.runs_to_delete_list[cleanup_all.attempted + 1].id
       IN  \/ cleanup_all' = [cleanup_all EXCEPT
                                 !.requests      = Append(@, run_id),
                                 !.server        = @ \ {run_id},
                                 !.deleted_count = @ + 1,
                                 !.attempted     = @ + 1]
           \/ /\ cleanup_all.failed_gets + cleanup_all.failed_count < MaxFailures
              /\ cleanup_all' = [cleanup_all EXCEPT
                                    !.requests     = Append(@, run_id),
                                    !.failed_count = @ + 1,
                                    !.attempted    = Len(cleanup_all.runs_to_delete_list)]
    /\ UNCHANGED <<analysis, cleanup, client>>

\* main, lines 175-190: one turn of the deletion loop
delete_workflow_run ==
    /\ cleanup_all.step = "delete"
    /\ cleanup_all.attempted < Len(cleanup_all.runs_to_delete_list)
    /\ LET run_id == cleanup_all.runs_to_delete_list[cleanup_all.attempted + 1].id
       IN  \/ cleanup_all' = [cleanup_all EXCEPT
                                 !.requests      = Append(@, run_id),
                                 !.server        = @ \ {run_id},
                                 !.deleted_count = @ + 1,
                                 !.attempted     = @ + 1]
           \/ /\ cleanup_all.failed_gets + cleanup_all.failed_count < MaxFailures
              /\ cleanup_all' = [cleanup_all EXCEPT
                                    !.requests     = Append(@, run_id),
                                    !.failed_count = @ + 1,
                                    !.attempted    = @ + 1]
    /\ UNCHANGED <<analysis, cleanup, client>>

\* main, lines 192-195: the final report, printed whatever the counts are
cleanup_all_report ==
    /\ cleanup_all.step = "delete"
    /\ cleanup_all.attempted = Len(cleanup_all.runs_to_delete_list)
    /\ cleanup_all' = [cleanup_all EXCEPT !.step = "ended", !.said = "completed"]
    /\ UNCHANGED <<analysis, cleanup, client>>

----------------------------------------------------------------------------
(* cleanup_workflows.py: the script and the runs of the workflow.  A request *)
(* is answered with a status code, 0 standing for a RequestException raised  *)
(* by requests.request.                                                      *)

MAX_RUNS_TO_KEEP == 10

\* a run of the workflow as the API returns it
WorkflowRun(n) == [id |-> 1000 + n, run_number |-> n]

\* the workflows an execution may find: no run, and around the number to keep
WorkflowSizes == {0} \cup ((MAX_RUNS_TO_KEEP - 1)..(MAX_RUNS_TO_KEEP + MaxExcess))

\* status codes 401 and 403, on which make_github_request exits
Denied == {401, 403}

\* answers to a GET request
GetStatuses == {200, 500, 0} \cup Denied

\* answers to a DELETE request
DeleteStatuses == {204, 404, 0} \cup Denied

\* data.get("workflow_runs", []) of the answer to .../runs?per_page=100&page=..,
\* the runs being listed newest first
WorkflowRuns(server, page) ==
    LET newest == MAX_RUNS_TO_KEEP + MaxExcess
        ids    == SelectSeq([k \in 1..newest |-> newest + 1 - k], LAMBDA n : n \in server)
        last   == IF page * per_page < Len(ids) THEN page * per_page ELSE Len(ids)
    IN  [k \in 1..(last - (page - 1) * per_page) |->
            WorkflowRun(ids[(page - 1) * per_page + k])]

\* a sort that puts the lowest run_number first
C29_SortAscending(runs) ==
    LET place == [i \in 1..Len(runs) |->
                    Cardinality({ j \in 1..Len(runs) :
                                    \/ runs[j].run_number < runs[i].run_number
                                    \/ /\ runs[j].run_number = runs[i].run_number
                                       /\ j <= i })]
    IN  [k \in 1..Len(runs) |-> runs[CHOOSE i \in 1..Len(runs) : place[i] = k]]

\* runs.sort(key=lambda x: x["run_number"], reverse=True): stable, highest first
SortByRunNumber(runs) ==
    LET place == [i \in 1..Len(runs) |->
                    Cardinality({ j \in 1..Len(runs) :
                                    \/ runs[j].run_number > runs[i].run_number
                                    \/ /\ runs[j].run_number = runs[i].run_number
                                       /\ j <= i })]
    IN  [k \in 1..Len(runs) |-> runs[CHOOSE i \in 1..Len(runs) : place[i] = k]]

\* input(...).strip().lower(), on the answers of Answers
StripLower(typed) ==
    CASE typed = "DELETE" -> "delete"
      [] typed = " yes"   -> "yes"
      [] typed = "Y"      -> "y"
      [] OTHER            -> typed

\* no execution of cleanup_workflows.py yet
CleanupNotRun ==
    [step           |-> "idle",   \* idle, status, fetch, analyze, confirm, delete or ended
     server         |-> {},       \* run numbers of the runs of the workflow
     found          |-> {},       \* run numbers of the runs there when the script started
     token          |-> FALSE,    \* GITHUB_TOKEN is set
     DRY_RUN        |-> FALSE,
     page           |-> 1,
     runs           |-> <<>>,
     runs_to_delete |-> <<>>,
     attempted      |-> 0,        \* iterations of the deletion loop completed
     deleted_count  |-> 0,
     failures       |-> 0,        \* DELETE requests answered with another error status
     requests       |-> <<>>,     \* the DELETE requests sent: run id and status answered
     confirm        |-> "",       \* what the user typed
     said           |-> ""]       \* how the script ended

\* sys.exit(1) out of the script
Exit(why) == [cleanup EXCEPT !.step = "ended", !.said = why]

\* main, lines 178-186: the script starts on a workflow of size runs
cleanup_main(size, token, dry_run) ==
    /\ cleanup.step \in {"idle", "ended"}
    /\ cleanup' = [CleanupNotRun EXCEPT
                      !.server  = 1..size,
                      !.found   = 1..size,
                      !.token   = token,
                      !.DRY_RUN = dry_run,
                      !.step    = "status"]
    /\ UNCHANGED <<analysis, cleanup_all, client>>

\* show_current_status, lines 153-176, with make_github_request, lines 35-53
show_current_status(status) ==
    /\ cleanup.step = "status"
    /\ cleanup' = IF ~ cleanup.token THEN Exit("no_token")
                  ELSE IF status = 0 THEN Exit("error")
                  ELSE IF status \in Denied THEN Exit("denied")
                  ELSE [cleanup EXCEPT !.step = "fetch"]
    /\ UNCHANGED <<analysis, cleanup_all, client>>

\* get_workflow_runs, lines 65-84: one turn of the loop
get_workflow_runs(status) ==
    /\ cleanup.step = "fetch"
    /\ LET runs == WorkflowRuns(cleanup.server, cleanup.page)
       IN  cleanup' =
               IF status \in Denied THEN Exit("denied")
               ELSE IF status # 200 THEN Exit("error")
               ELSE IF runs = <<>> THEN [cleanup EXCEPT !.step = "analyze"]
               ELSE [cleanup EXCEPT
                        !.runs = @ \o runs,
                        !.page = @ + 1,
                        !.step = IF Len(runs) < per_page THEN "analyze" ELSE "fetch"]
    /\ UNCHANGED <<analysis, cleanup_all, client>>

\* analyze_and_cleanup, lines 89-119: the sort, the count, the plan and the dry run
analyze_and_cleanup ==
    /\ cleanup.step = "analyze"
    /\ LET runs       == SortByRunNumber(cleanup.runs)
           total_runs == Len(runs)
       IN  cleanup' =
               IF total_runs <= MAX_RUNS_TO_KEEP
               THEN [cleanup EXCEPT !.runs = runs, !.step = "ended", !.said = "no_cleanup"]
               ELSE [cleanup EXCEPT
                        !.runs           = runs,
                        !.runs_to_delete = SubSeq(runs, MAX_RUNS_TO_KEEP + 1, total_runs),
                        !.step = IF cleanup.DRY_RUN THEN "ended" ELSE "confirm",
                        !.said = IF cleanup.DRY_RUN THEN "dry_run" ELSE ""]
    /\ UNCHANGED <<analysis, cleanup_all, client>>

\* analyze_and_cleanup, lines 121-131: the confirmation prompt
cleanup_confirm(typed) ==
    /\ cleanup.step = "confirm"
    /\ cleanup' =
           IF StripLower(typed) \notin {"y", "yes"}
           THEN [cleanup EXCEPT !.confirm = typed, !.step = "ended", !.said = "cancelled"]
           ELSE [cleanup EXCEPT !.confirm = typed, !.step = "delete"]
    /\ UNCHANGED <<analysis, cleanup_all, client>>

\* analyze_and_cleanup, lines 133-149: one turn of the deletion loop
delete_old_run(status) ==
    /\ cleanup.step = "delete"
    /\ cleanup.attempted < Len(cleanup.runs_to_delete)
    /\ status \notin Denied \cup {0, 204} => cleanup.failures < MaxFailures
    /\ LET run  == cleanup.runs_to_delete[cleanup.attempted + 1]
           sent == Append(cleanup.requests, [id |-> run.id, status |-> status])
       IN  cleanup' =
               IF status = 0
               THEN [cleanup EXCEPT !.requests = sent, !.step = "ended", !.said = "error"]
               ELSE IF status \in Denied
               THEN [cleanup EXCEPT !.requests = sent, !.step = "ended", !.said = "denied"]
               ELSE IF status = 204
               THEN [cleanup EXCEPT !.requests      = sent,
                                    !.server        = @ \ {run.run_number},
                                    !.deleted_count = @ + 1,
                                    !.attempted     = @ + 1]
               ELSE [cleanup EXCEPT !.requests  = sent,
                                    !.failures  = @ + 1,
                                    !.attempted = @ + 1]
    /\ UNCHANGED <<analysis, cleanup_all, client>>

\* analyze_and_cleanup, line 151: the loop is over
cleanup_completed ==
    /\ cleanup.step = "delete"
    /\ cleanup.attempted = Len(cleanup.runs_to_delete)
    /\ cleanup' = [cleanup EXCEPT !.step = "ended", !.said = "completed"]
    /\ UNCHANGED <<analysis, cleanup_all, client>>

----------------------------------------------------------------------------
(* docs/api/examples/python/client.py: a SecureFlowClient and the answers of  *)
(* the API.  A Python string is the record Str(text), so that it can be       *)
(* compared with None; an f-string is the sequence of its pieces.             *)

Str(text) == [str |-> text]

\* the tokens a caller passes to set_token
Tokens == {Str("t1"), Str("t2"), Str("t3")}

\* str(value) as an f-string renders it
Rendered(value) == IF value = None THEN "None" ELSE value.str

\* f'Bearer {token}'
Bearer(token) == <<"Bearer ", Rendered(token)>>

\* self.session.request raised a requests.RequestException
RequestFailed == [raised |-> TRUE]

\* an answer with a status code and a body: a JSON object, or text that is not JSON
Answer(status_code, body) == [raised |-> FALSE, status_code |-> status_code, body |-> body]

NotJson == [text |-> "<html>"]

\* the answers of the API: a failed request, error statuses, and 200 with a new
\* token, with no token, with success false, with token null (as when a second
\* factor is still due), with an empty object and with a body that is not JSON
Responses ==
    {RequestFailed,
     Answer(401, [error |-> Str("unauthorized")]),
     Answer(500, NotJson),
     Answer(200, [success |-> TRUE, token |-> Str("t1")]),
     Answer(200, [success |-> TRUE, token |-> Str("t2")]),
     Answer(200, [token |-> Str("t2")]),
     Answer(200, [success |-> TRUE]),
     Answer(200, [success |-> FALSE, token |-> Str("t2")]),
     Answer(200, [success |-> TRUE, token |-> None, mfaRequired |-> TRUE]),
     Answer(200, EmptyDict),
     Answer(200, NotJson)}

APIResponse(success, payload, error, status_code) ==
    [success |-> success, data |-> payload, error |-> error, status_code |-> status_code]

\* _make_request, lines 41-87: the APIResponse made of an answer
make_request(response) ==
    IF response.raised
    THEN APIResponse(FALSE, None, [message |-> Str("Request failed")], 0)
    ELSE IF response.status_code >= 400
    THEN IF response.body = NotJson
         THEN APIResponse(FALSE, None, [message |-> response.body], response.status_code)
         ELSE APIResponse(FALSE, None,
                          IF "error" \in DOMAIN response.body THEN response.body.error ELSE None,
                          response.status_code)
    ELSE IF response.body = NotJson
    THEN APIResponse(TRUE, [message |-> response.body], None, response.status_code)
    ELSE APIResponse(IF "success" \in DOMAIN response.body THEN response.body.success ELSE TRUE,
                     response.body, None, response.status_code)

\* result.success and result.data and 'token' in result.data
CarriesToken(result) ==
    /\ result.success
    /\ result.data # None
    /\ result.data # EmptyDict
    /\ "token" \in DOMAIN result.data

\* no client object yet
NoClient ==
    [token   |-> None,        \* self.token
     headers |-> EmptyDict,   \* self.session.headers
     call    |-> "",          \* the method called last
     result  |-> None]        \* the APIResponse it returned

\* SecureFlowClient(), lines 27-34
NewClient ==
    /\ client' = [NoClient EXCEPT
                     !.headers = [Content_Type |-> Str("application/json"),
                                  User_Agent   |-> Str("SecureFlow-Python-Client/4.1.0")],
                     !.call    = "__init__"]
    /\ UNCHANGED <<analysis, cleanup_all, cleanup>>

\* the client after set_token(token), lines 36-39
WithToken(token) ==
    [client EXCEPT !.token = token,
                   !.headers = Put(@, "Authorization", Bearer(token))]

set_token(token) ==
    /\ client.call # ""
    /\ client' = [WithToken(token) EXCEPT !.call = "set_token", !.result = None]
    /\ UNCHANGED <<analysis, cleanup_all, cleanup>>

\* login, lines 89-108
login(response) ==
    /\ client.call # ""
    /\ LET result == make_request(response)
       IN  client' = [(IF CarriesToken(result) THEN WithToken(result.data.token) ELSE client)
                         EXCEPT !.call = "login", !.result = result]
    /\ UNCHANGED <<analysis, cleanup_all, cleanup>>

\* refresh_token, lines 110-117
refresh_token(response) ==
    /\ client.call # ""
    /\ LET result == make_request(response)
       IN  client' = [(IF CarriesToken(result) THEN WithToken(result.data.token) ELSE client)
                         EXCEPT !.call = "refresh_token", !.result = result]
    /\ UNCHANGED <<analysis, cleanup_all, cleanup>>

\* logout, lines 119-128
logout(response) ==
    /\ client.call # ""
    /\ LET result == make_request(response)
       IN  client' = [(IF result.success
                       THEN [client EXCEPT
                                !.token   = None,
                                !.headers = [h \in DOMAIN @ \ {"Authorization"} |-> @[h]]]
                       ELSE client)
                         EXCEPT !.call = "logout", !.result = result]
    /\ UNCHANGED <<analysis, cleanup_all, cleanup>>

----------------------------------------------------------------------------
(* The session: construction, loading, the analyses and the pipeline *)

\* no call is in progress
Ready == pc \in {"idle", "done", "no_data", "repeated"}

Init ==
    /\ data = None
    /\ results = EmptyDict
    /\ pc = "idle"
    /\ control_data = <<>>
    /\ treatment_data = <<>>
    /\ lib_calls = EmptyDict
    /\ roi = None
    /\ files = {}
    /\ pending = EmptyDict
    /\ cleanup_all = CleanupAllNotRun
    /\ cleanup = CleanupNotRun
    /\ client = NoClient

\* ExperimentalAnalysis(): a new session object
NewSession ==
    /\ pc \in {"idle", "done", "no_data", "repeated", "failed", "plots_failed"}
    /\ data' = None
    /\ results' = EmptyDict
    /\ pc' = "idle"
    /\ control_data' = <<>>
    /\ treatment_data' = <<>>
    /\ lib_calls' = EmptyDict
    /\ roi' = None
    /\ pending' = EmptyDict
    /\ UNCHANGED <<files, scripts>>

\* pd.DataFrame(records): the frame made of the file's rows
DataFrame(rows) == [rows |-> rows]

\* load_data(data_path), frame being the rows of the file
load_data(frame) ==
    /\ Ready
    /\ data' = DataFrame(frame)
    /\ UNCHANGED <<results, pc, control_data, treatment_data, lib_calls, roi, files, pending, scripts>>

\* an analysis that starts the results over instead of adding its category
C3_FinishFresh(category, run, next) ==
    /\ lib_calls' = run.calls
    /\ IF run.raised
       THEN pc' = "failed" /\ UNCHANGED results
       ELSE pc' = next /\ results' = (category :> run.results)

\* an analysis that files the category's earlier reports under the new ones
C13_FinishKeepsHistory(category, run, next) ==
    /\ lib_calls' = run.calls
    /\ IF run.raised
       THEN pc' = "failed" /\ UNCHANGED results
       ELSE /\ pc' = next
            /\ results' = Put(results, category,
                              Put(run.results, "previous_run",
                                  IF category \in DOMAIN results
                                  THEN results[category] ELSE EmptyDict))

\* how an analysis ends: self.results[category] = results, or an exception leaves it unwritten
Finish(category, run, next) ==
    /\ lib_calls' = run.calls
    /\ IF run.raised
       THEN pc' = "failed" /\ UNCHANGED results
       ELSE pc' = next /\ results' = Put(results, category, run.results)

analyze_web_vitals(cd, td) ==
    /\ Ready
    /\ control_data' = cd
    /\ treatment_data' = td
    /\ \E run \in WebVitalsLoop(Len(vitals), cd, td) : Finish("web_vitals", run, "idle")
    /\ UNCHANGED <<data, roi, files, pending, scripts>>

analyze_security_metrics(cd, td) ==
    /\ Ready
    /\ control_data' = cd
    /\ treatment_data' = td
    /\ \E run \in SecurityRuns(cd, td) : Finish("security", run, "idle")
    /\ UNCHANGED <<data, roi, files, pending, scripts>>

analyze_user_engagement(cd, td) ==
    /\ Ready
    /\ control_data' = cd
    /\ treatment_data' = td
    /\ \E run \in EngagementLoop(Len(metrics), cd, td) : Finish("engagement", run, "idle")
    /\ UNCHANGED <<data, roi, files, pending, scripts>>

\* calculate_roi(self.results), called directly
calculate_roi ==
    /\ Ready
    /\ roi' = ROIReport(results)
    /\ UNCHANGED <<data, results, pc, control_data, treatment_data, lib_calls, files, pending, scripts>>

\* a run that empties the accumulator when it finds no data
C23_RunClearsResults(control_group, treatment_group) ==
    /\ Ready
    /\ IF data = None
       THEN /\ pc' = "no_data"
            /\ results' = EmptyDict
            /\ UNCHANGED <<control_data, treatment_data>>
       ELSE /\ pc' = "web_vitals"
            /\ control_data' = RowsOfGroups(data.rows, control_group)
            /\ treatment_data' = RowsOfGroups(data.rows, treatment_group)
            /\ UNCHANGED results
    /\ UNCHANGED <<data, lib_calls, roi, files, pending, scripts>>

\* run_complete_analysis, lines 519-540: the guard and the split by groups
run_complete_analysis(control_group, treatment_group) ==
    /\ Ready
    /\ IF data = None
       THEN /\ pc' = "no_data"
            /\ UNCHANGED <<control_data, treatment_data>>
       ELSE /\ pc' = "web_vitals"
            /\ control_data' = RowsOfGroups(data.rows, control_group)
            /\ treatment_data' = RowsOfGroups(data.rows, treatment_group)
    /\ UNCHANGED <<data, results, lib_calls, roi, files, pending, scripts>>

\* line 543
RunWebVitals ==
    /\ pc = "web_vitals"
    /\ \E run \in WebVitalsLoop(Len(vitals), control_data, treatment_data) :
           Finish("web_vitals", run, "security")
    /\ UNCHANGED <<data, control_data, treatment_data, roi, files, pending, scripts>>

\* line 544
RunSecurity ==
    /\ pc = "security"
    /\ \E run \in SecurityRuns(control_data, treatment_data) :
           Finish("security", run, "engagement")
    /\ UNCHANGED <<data, control_data, treatment_data, roi, files, pending, scripts>>

\* line 545
RunEngagement ==
    /\ pc = "engagement"
    /\ \E run \in EngagementLoop(Len(metrics), control_data, treatment_data) :
           Finish("engagement", run, "roi")
    /\ UNCHANGED <<data, control_data, treatment_data, roi, files, pending, scripts>>

\* a run that files the ROI report in the accumulator
C24_RunRoiStored ==
    /\ pc = "roi"
    /\ roi' = ROIReport(results)
    /\ results' = Put(results, "roi", EmptyDict)
    /\ pc' = "plots"
    /\ UNCHANGED <<data, control_data, treatment_data, lib_calls, files, pending, scripts>>

\* line 548: self.calculate_roi(self.results), the returned dict is dropped
RunRoi ==
    /\ pc = "roi"
    /\ roi' = ROIReport(results)
    /\ pc' = "plots"
    /\ UNCHANGED <<data, results, control_data, treatment_data, lib_calls, files, pending, scripts>>

\* np.array(effect_sizes) - np.array(ci_lower) >= 0 for the stored numbers (line 408):
\* |center - 1.96*se| <= |center|
StoredLowerAtMostEffect(b) ==
    /\ b.center.kind = "num"
    /\ b.center.sgn > 0
    /\ ~ FGt(Num(b.half.num, b.half.den), FMul(F(4), Num(b.center.num, b.center.den)))

\* np.array(ci_upper) - np.array(effect_sizes) >= 0 for the stored numbers (line 409):
\* |center| <= |center + 1.96*se|
EffectAtMostStoredUpper(b) ==
    /\ b.center.kind = "num"
    /\ \/ b.center.sgn >= 0
       \/ ~ FLt(Num(b.half.num, b.half.den), FMul(F(4), Num(b.center.num, b.center.den)))

\* the xerr handed to ax.barh (lines 408-409) has a negative entry
NegativeErrorBar(web_vitals) ==
    \E m \in DOMAIN web_vitals :
        /\ web_vitals[m].ci_lower.center.kind = "num"
        /\ \/ ~ StoredLowerAtMostEffect(web_vitals[m].ci_lower)
           \/ ~ EffectAtMostStoredUpper(web_vitals[m].ci_upper)

\* line 551: generate_publication_plots; matplotlib releases that validate error bars
\* raise ValueError on a negative xerr, older ones draw it
RunPlots ==
    /\ pc = "plots"
    /\ \/ /\ files' = IF results = EmptyDict THEN files
                       ELSE files \cup {"statistical_analysis_results.png"}
          /\ pc' = "latex"
       \/ /\ "web_vitals" \in DOMAIN results
          /\ NegativeErrorBar(results["web_vitals"])
          /\ pc' = "plots_failed"
          /\ UNCHANGED files
    /\ UNCHANGED <<data, results, control_data, treatment_data, lib_calls, roi, pending, scripts>>

\* line 552: generate_latex_tables only prints
RunLatex ==
    /\ pc = "latex"
    /\ pc' = "save"
    /\ UNCHANGED <<data, results, control_data, treatment_data, lib_calls, roi, files, pending, scripts>>

\* lines 555-564: json.dump(self.results, ...) and return
RunSave ==
    /\ pc = "save"
    /\ files' = files \cup {"statistical_results.json"}
    /\ pc' = "done"
    /\ UNCHANGED <<data, results, control_data, treatment_data, lib_calls, roi, pending, scripts>>

----------------------------------------------------------------------------
(* Specifications of the scripts *)

\* executions of cleanup_all_workflows.py
NextCleanupAll ==
    \/ \E size \in RepoSizes, token \in BOOLEAN, dry_run \in BOOLEAN :
           cleanup_all_main(size, token, dry_run)
    \/ get_all_workflow_runs
    \/ cleanup_all_plan
    \/ \E typed \in Answers : cleanup_all_confirm(typed)
    \/ delete_workflow_run
    \/ cleanup_all_report

SpecCleanupAll == Init /\ [][NextCleanupAll]_vars

\* executions of cleanup_workflows.py
NextCleanup ==
    \/ \E size \in WorkflowSizes, token \in BOOLEAN, dry_run \in BOOLEAN :
           cleanup_main(size, token, dry_run)
    \/ \E status \in GetStatuses : show_current_status(status)
    \/ \E status \in GetStatuses : get_workflow_runs(status)
    \/ analyze_and_cleanup
    \/ \E typed \in Answers : cleanup_confirm(typed)
    \/ \E status \in DeleteStatuses : delete_old_run(status)
    \/ cleanup_completed

SpecCleanup == Init /\ [][NextCleanup]_vars

\* a client and any sequence of calls of its authentication methods
NextClient ==
    \/ NewClient
    \/ \E token \in Tokens : set_token(token)
    \/ \E response \in Responses : login(response)
    \/ \E response \in Responses : refresh_token(response)
    \/ \E response \in Responses : logout(response)

SpecClient == Init /\ [][NextClient]_vars

----------------------------------------------------------------------------
(* Inputs *)

RECURSIVE SeqsUpTo(_, _)
SeqsUpTo(S, n) ==
    IF n = 0 THEN {<<>>}
    ELSE SeqsUpTo(S, n - 1) \cup
         { Append(s, v) : <<s, v>> \in { t \in SeqsUpTo(S, n - 1) : Len(t) = n - 1 } \X S }

\* the samples drawn for a direct call on a new session
Samples == SeqsUpTo(Values, MaxLen)

ControlGroup == "control_1"

TreatmentGroup == "treatment_1"

\* an experiment export: lcp has no treatment rows, session_duration no treatment rows,
\* one row belongs to an unlisted group and one to an unknown metric; cls_control is
\* the control sample of core_web_vitals_cls (its treatment sample is then <<1>>)
Experiment(cls_control) ==
       Rows("core_web_vitals_lcp", ControlGroup, <<3>>)
    \o Rows("core_web_vitals_fid", ControlGroup, <<2>>)
    \o Rows("core_web_vitals_fid", TreatmentGroup, <<1>>)
    \o Rows("core_web_vitals_cls", ControlGroup, cls_control)
    \o Rows("core_web_vitals_cls", TreatmentGroup, IF cls_control = <<>> THEN <<>> ELSE <<1>>)
    \o Rows("core_web_vitals_fid", "pilot", <<7>>)
    \o Rows(ScanDuration, ControlGroup, <<1200>>)
    \o Rows(ScanDuration, TreatmentGroup, <<600>>)
    \o Rows("security_vulnerabilities_total", TreatmentGroup, <<2>>)
    \o Rows("security_false_positives", TreatmentGroup, <<1>>)
    \o Rows("user_session_duration", ControlGroup, <<5>>)
    \o Rows("user_pages_visited", ControlGroup, <<1>>)
    \o Rows("user_pages_visited", TreatmentGroup, <<2>>)
    \o Rows("page_views", ControlGroup, <<9>>)

WellFormed == Experiment(<<>>)

\* the same export with a value of core_web_vitals_cls that is not a number
Malformed == Experiment(<<NonNumeric>>)

DataSets == {WellFormed, Malformed}

ControlGroups == {<<>>, <<ControlGroup>>}

TreatmentGroups == {<<>>, <<TreatmentGroup>>}

----------------------------------------------------------------------------
(* Specifications *)

\* one session: loading, the pipeline, and direct calls on the frames of an export
Next ==
    \/ NewSession
    \/ \E frame \in DataSets : load_data(frame)
    \/ \E cg \in ControlGroups, tg \in TreatmentGroups : run_complete_analysis(cg, tg)
    \/ RunWebVitals
    \/ RunSecurity
    \/ RunEngagement
    \/ RunRoi
    \/ RunPlots
    \/ RunLatex
    \/ RunSave
    \/ \E frame \in DataSets, cg \in ControlGroups, tg \in TreatmentGroups :
           analyze_web_vitals(RowsOfGroups(frame, cg), RowsOfGroups(frame, tg))
    \/ \E cg \in ControlGroups, tg \in TreatmentGroups :
           analyze_security_metrics(RowsOfGroups(WellFormed, cg), RowsOfGroups(WellFormed, tg))
    \/ \E cg \in ControlGroups, tg \in TreatmentGroups :
           analyze_user_engagement(RowsOfGroups(WellFormed, cg), RowsOfGroups(WellFormed, tg))
    \/ calculate_roi

Spec == Init /\ [][Next]_vars

\* a new session and one direct call of an analysis on the samples of one metric
NextMetric ==
    \/ NewSession
    \/ \E m \in Range(vitals), c \in Samples, t \in Samples :
           /\ results = EmptyDict
           /\ analyze_web_vitals(Rows(m, ControlGroup, c), Rows(m, TreatmentGroup, t))
    \/ \E c \in Samples, t \in Samples :
           /\ results = EmptyDict
           /\ analyze_security_metrics(Rows(ScanDuration, ControlGroup, c),
                                       Rows(ScanDuration, TreatmentGroup, t))
    \/ \E m \in Range(metrics), c \in Samples, t \in Samples :
           /\ results = EmptyDict
           /\ analyze_user_engagement(Rows(m, ControlGroup, c), Rows(m, TreatmentGroup, t))

SpecMetric == Init /\ [][NextMetric]_vars

----------------------------------------------------------------------------
(* Reading the state *)

\* self.results.get(category, {})
Entries(category) == IF category \in DOMAIN results THEN results[category] ELSE EmptyDict

Control(metric) == ValuesOf(control_data, metric)

Treatment(metric) == ValuesOf(treatment_data, metric)

BothNonEmpty(metric) == Len(Control(metric)) > 0 /\ Len(Treatment(metric)) > 0

Numeric(metric) == ~ IsMalformed(Control(metric)) /\ ~ IsMalformed(Treatment(metric))

\* both samples constant: the pooled standard deviation is 0
ZeroPooledStd(metric) == Var(Control(metric)).num = 0 /\ Var(Treatment(metric)).num = 0

\* p < 0.05 read off the stored number itself
BelowFivePercent(p) == p.kind = "num" /\ 100 * p.num < 5 * p.den

\* positions of run_complete_analysis at which the category has been written by this run
AfterWebVitals == {"security", "engagement", "roi", "plots", "latex", "save", "done"}

AfterSecurity == {"engagement", "roi", "plots", "latex", "save", "done"}

AfterEngagement == {"roi", "plots", "latex", "save", "done"}

----------------------------------------------------------------------------
(* C1 *)

\* C1: every stored report of the three analyses has significant = TRUE exactly when
\* its p_value is strictly below 0.05 (0.05 itself and nan give FALSE).
C1_SignificantIffBelowAlpha ==
    /\ \A m \in DOMAIN Entries("web_vitals") :
           Entries("web_vitals")[m].significant
               = BelowFivePercent(Entries("web_vitals")[m].p_value)
    /\ "p_value" \in DOMAIN Entries("security") =>
           Entries("security").significant = BelowFivePercent(Entries("security").p_value)
    /\ \A m \in DOMAIN Entries("engagement") :
           Entries("engagement")[m].significant
               = BelowFivePercent(Entries("engagement")[m].p_value)

\* a report whose p_value is exactly 0.05 is stored, and is not significant
C1_Witness ==
    \E m \in DOMAIN Entries("engagement") :
        /\ Entries("engagement")[m].p_value = Num(1, 20)
        /\ ~ Entries("engagement")[m].significant

----------------------------------------------------------------------------
(* C2 *)

\* C2: for every pair of samples tested, in every category, the normality of both
\* samples is evaluated and decides the test: Mann-Whitney U if either normality
\* p-value is <= 0.05, the t-test if both exceed 0.05.
C2_TestChosenByNormality ==
    \A m \in DOMAIN lib_calls :
        /\ lib_calls[m].normality
        /\ lib_calls[m].test \in {"ttest_ind", "mannwhitneyu"}
        /\ lib_calls[m].test = "ttest_ind" <=>
               /\ FGt(lib_calls[m].p_normal_control, Num(1, 20))
               /\ FGt(lib_calls[m].p_normal_treatment, Num(1, 20))

----------------------------------------------------------------------------
(* C3 *)

\* C3 as claimed: within a session every (category, metric) entry once stored stays
\* stored and unchanged; entries go only when a new session is created.
C3_ReportsOnlyGrow ==
    [][NewSession \/
       \A cat \in DOMAIN results :
           /\ cat \in DOMAIN results'
           /\ \A m \in DOMAIN results[cat] :
                  /\ m \in DOMAIN results'[cat]
                  /\ results'[cat][m] = results[cat][m]]_vars

\* C3 amended: within a session the set of categories only grows and one step changes
\* the mapping of at most one category (the analysis called replaces its own
\* category's mapping); the other categories' entries stay as they were.
C3_OnlyOwnCategoryReplaced ==
    [][NewSession \/
       /\ DOMAIN results \subseteq DOMAIN results'
       /\ Cardinality({cat \in DOMAIN results' :
                          cat \notin DOMAIN results \/ results'[cat] # results[cat]}) <= 1]_vars

\* the pipeline has written security after web_vitals, whose report is still there
C3_Witness ==
    /\ pc = "engagement"
    /\ "core_web_vitals_fid" \in DOMAIN Entries("web_vitals")
    /\ "p_value" \in DOMAIN Entries("security")

----------------------------------------------------------------------------
(* C4 *)

\* the metrics whose samples an entry of a category is computed from
SourceMetrics(category, key) ==
    IF category = "security"
    THEN IF key \in {"accuracy", "false_positive_rate"}
         THEN {"security_vulnerabilities_total", "security_false_positives"}
         ELSE {ScanDuration}
    ELSE {key}

WrittenByRun(category) ==
    \/ category = "web_vitals" /\ pc \in AfterWebVitals
    \/ category = "security" /\ pc \in AfterSecurity
    \/ category = "engagement" /\ pc \in AfterEngagement

\* C4 as claimed: every entry of every category comes from a non-empty control sample
\* and a non-empty treatment sample.
C4_EveryEntryFromBothSamples ==
    \A cat \in {"web_vitals", "security", "engagement"} :
        WrittenByRun(cat) =>
            \A key \in DOMAIN Entries(cat) :
                \A m \in SourceMetrics(cat, key) : BothNonEmpty(m)

\* C4 amended: every web_vitals and engagement entry, and the detection-time fields of
\* security, come from a non-empty control and a non-empty treatment sample; accuracy
\* and false_positive_rate come from the treatment samples alone and are written
\* whenever those two are non-empty, whatever the control data.
C4_EntriesNeedTheirSamples ==
    \A cat \in {"web_vitals", "security", "engagement"} :
        WrittenByRun(cat) =>
            \A key \in DOMAIN Entries(cat) :
                \A m \in SourceMetrics(cat, key) :
                    IF key \in {"accuracy", "false_positive_rate"} /\ cat = "security"
                    THEN Len(Treatment(m)) > 0
                    ELSE BothNonEmpty(m)

\* a run whose control frame is empty has stored accuracy in security and nothing else
C4_Witness ==
    /\ pc \in AfterEngagement
    /\ control_data = <<>>
    /\ DOMAIN Entries("security") = {"accuracy", "false_positive_rate"}
    /\ Entries("web_vitals") = EmptyDict
    /\ Entries("engagement") = EmptyDict

----------------------------------------------------------------------------
(* C5 *)

\* C5: an empty sample raises nothing and stops nothing: when a call has failed, a
\* metric with both samples non-empty holds a non-numeric value; and once the pipeline
\* is past an analysis, every metric of that category with both samples non-empty has
\* its entry, the later categories being analysed in turn.
C5_EmptySampleStopsNothing ==
    /\ pc = "failed" => \E m \in MetricNames : BothNonEmpty(m) /\ ~ Numeric(m)
    /\ pc \in AfterWebVitals =>
           /\ "web_vitals" \in DOMAIN results
           /\ \A m \in Range(vitals) : BothNonEmpty(m) => m \in DOMAIN results["web_vitals"]
    /\ pc \in AfterSecurity =>
           /\ "security" \in DOMAIN results
           /\ BothNonEmpty(ScanDuration) => "p_value" \in DOMAIN results["security"]
    /\ pc \in AfterEngagement =>
           /\ "engagement" \in DOMAIN results
           /\ \A m \in Range(metrics) : BothNonEmpty(m) => m \in DOMAIN results["engagement"]

\* a finished run in which lcp had no treatment sample and session_duration none either,
\* while fid and pages_visited got their reports
C5_Witness ==
    /\ pc = "done"
    /\ Len(Control("core_web_vitals_lcp")) > 0
    /\ Len(Treatment("core_web_vitals_lcp")) = 0
    /\ Len(Treatment("user_session_duration")) = 0
    /\ DOMAIN Entries("web_vitals") = {"core_web_vitals_fid"}
    /\ DOMAIN Entries("engagement") = {"user_pages_visited"}

----------------------------------------------------------------------------
(* C6 *)

\* C6: a non-numeric value fails only its own metric: whenever a call has ended, by
\* returning or by an exception, the web-vitals metrics with numeric non-empty samples
\* have their reports stored.
C6_FailureIsPerMetric ==
    pc \in AfterWebVitals \cup {"failed"} =>
        \A m \in Range(vitals) :
            BothNonEmpty(m) /\ Numeric(m) => m \in DOMAIN Entries("web_vitals")

----------------------------------------------------------------------------
(* C7 *)

\* C7: the cohens_d stored in every report of every category is >= 0.
C7_EffectSizeNonNegative ==
    /\ \A m \in DOMAIN Entries("web_vitals") : RootNonNeg(Entries("web_vitals")[m].cohens_d)
    /\ "cohens_d" \in DOMAIN Entries("security") => RootNonNeg(Entries("security").cohens_d)
    /\ \A m \in DOMAIN Entries("engagement") : RootNonNeg(Entries("engagement")[m].cohens_d)

\* a security report whose treatment mean exceeds the control mean, with a positive d
C7_Witness ==
    /\ "cohens_d" \in DOMAIN Entries("security")
    /\ FLt(Entries("security").mean_control_minutes, Entries("security").mean_treatment_minutes)
    /\ Entries("security").cohens_d.sgn = 1

----------------------------------------------------------------------------
(* C8 *)

EffectSizeOf(category, metric) ==
    IF category = "security" THEN Entries(category).cohens_d
    ELSE Entries(category)[metric].cohens_d

HasEntry(category, metric) ==
    IF category = "security" THEN "cohens_d" \in DOMAIN Entries(category)
    ELSE metric \in DOMAIN Entries(category)

MetricsOf(category) ==
    IF category = "web_vitals" THEN Range(vitals)
    ELSE IF category = "security" THEN {ScanDuration}
    ELSE Range(metrics)

\* C8: a metric whose two samples are constant (pooled standard deviation 0) is
\* analysed without an exception and its stored effect size is exactly 0.
C8_ZeroPooledStdGivesZero ==
    /\ \A cat \in DOMAIN results : \A m \in MetricsOf(cat) :
           BothNonEmpty(m) /\ ZeroPooledStd(m) =>
               /\ pc # "failed"
               /\ HasEntry(cat, m)
               /\ RootIsZero(EffectSizeOf(cat, m))

\* a web-vitals report of two constant samples with different means, effect size 0
C8_Witness ==
    \E m \in DOMAIN Entries("web_vitals") :
        /\ ZeroPooledStd(m)
        /\ Entries("web_vitals")[m].mean_control # Entries("web_vitals")[m].mean_treatment
        /\ RootIsZero(Entries("web_vitals")[m].cohens_d)

----------------------------------------------------------------------------
(* C9 *)

\* C9: when the control mean is 0 the stored improvement percentage is exactly 0, in
\* web vitals, in security (detection_time_reduction) and in engagement.
C9_ZeroControlMeanGivesZero ==
    /\ \A m \in DOMAIN Entries("web_vitals") :
           Entries("web_vitals")[m].mean_control = F(0) =>
               Entries("web_vitals")[m].improvement_percent = F(0)
    /\ "detection_time_reduction" \in DOMAIN Entries("security") =>
           (Entries("security").mean_control_minutes = F(0) =>
               Entries("security").detection_time_reduction = F(0))
    /\ \A m \in DOMAIN Entries("engagement") :
           Entries("engagement")[m].mean_control = F(0) =>
               Entries("engagement")[m].improvement_percent = F(0)

----------------------------------------------------------------------------
(* C10 *)

\* C10: the fractions calculate_roi uses are drawn from the reports it is given: right
\* after the pipeline's ROI step, the performance fraction behind revenue_increase is
\* the improvement of a web-vitals report and the savings fraction behind cost_savings
\* is the reported detection-time reduction.
C10_RoiDrawnFromReports ==
    pc = "plots" =>
        /\ \E m \in DOMAIN Entries("web_vitals") :
               FDiv(Entries("web_vitals")[m].improvement_percent, F(100))
                   = FDiv(roi.revenue_increase, FMul(F(AnnualRevenue), ConversionShare))
        /\ "detection_time_reduction" \in DOMAIN Entries("security")
        /\ FDiv(Entries("security").detection_time_reduction, F(100))
               = FDiv(roi.cost_savings, F(AnnualSecurityCost))

----------------------------------------------------------------------------
(* C11 *)

\* C11: whenever calculate_roi has returned, revenue_increase is the baseline revenue
\* times the performance fraction times 0.1 and cost_savings is the security cost times
\* the time-savings fraction; with revenue 1,000,000 and fraction 0.45 that is 45,000
\* (and 93,000 saved).
C11_RevenueAndSavings ==
    roi # None =>
        /\ roi.revenue_increase.kind = "num"
        /\ roi.revenue_increase.num * PerformanceImprovement.den * 10
               = (AnnualRevenue \div 1000) * PerformanceImprovement.num
                     * roi.revenue_increase.den * 1000
        /\ roi.revenue_increase = F(45000)
        /\ roi.cost_savings.kind = "num"
        /\ roi.cost_savings.num * SecurityTimeSavings.den
               = AnnualSecurityCost * SecurityTimeSavings.num * roi.cost_savings.den
        /\ roi.cost_savings = F(93000)

\* the pipeline has just run its ROI step
C11_Witness == pc = "plots" /\ roi # None /\ "security" \in DOMAIN results

----------------------------------------------------------------------------
(* C12 *)

\* total_cost = development cost + annual operational cost
TotalCost == DevelopmentCost + AnnualOperationalCost

\* C12: in every ROIReport returned, total_benefit = revenue_increase + cost_savings,
\* roi_percent = (total_benefit - total_cost) / total_cost * 100 and
\* payback_months = total_cost / total_benefit * 12 (with whole-dollar benefits).
C12_RoiFormulas ==
    roi # None =>
        /\ roi.revenue_increase.den = 1 /\ roi.cost_savings.den = 1
        /\ roi.total_benefit = F(roi.revenue_increase.num + roi.cost_savings.num)
        /\ roi.roi_percent.kind = "num"
        /\ roi.roi_percent.num * (TotalCost \div 100)
               = (roi.total_benefit.num - TotalCost) * roi.roi_percent.den
        /\ roi.payback_months.kind = "num"
        /\ roi.payback_months.num * (roi.total_benefit.num \div 1000)
               = (TotalCost \div 1000) * 12 * roi.payback_months.den

\* calculate_roi called directly on a session without any result
C12_Witness == roi # None /\ results = EmptyDict /\ pc = "idle"

----------------------------------------------------------------------------
(* C13: the same analysis called again on the same data *)

\* scipy's tests are functions of their arguments: a call repeated on the same samples
\* gets the answers the first call got (the same normality p-values, test and p-value)
SameAnswers(category, run) ==
    /\ ~ run.raised
    /\ run.calls = lib_calls
    /\ IF category = "security"
       THEN "p_value" \in DOMAIN run.results =>
                /\ "p_value" \in DOMAIN results[category]
                /\ run.results.p_value = results[category].p_value
       ELSE \A m \in DOMAIN run.results :
                /\ m \in DOMAIN results[category]
                /\ run.results[m].p_value = results[category][m].p_value

\* analyze_web_vitals(control_data, treatment_data) once more
RepeatWebVitals ==
    /\ Ready
    /\ "web_vitals" \in DOMAIN results
    /\ \E run \in WebVitalsLoop(Len(vitals), control_data, treatment_data) :
           SameAnswers("web_vitals", run) /\ Finish("web_vitals", run, "repeated")
    /\ UNCHANGED <<data, control_data, treatment_data, roi, files, pending, scripts>>

\* analyze_security_metrics(control_data, treatment_data) once more
RepeatSecurity ==
    /\ Ready
    /\ "security" \in DOMAIN results
    /\ \E run \in SecurityRuns(control_data, treatment_data) :
           SameAnswers("security", run) /\ Finish("security", run, "repeated")
    /\ UNCHANGED <<data, control_data, treatment_data, roi, files, pending, scripts>>

\* analyze_user_engagement(control_data, treatment_data) once more
RepeatEngagement ==
    /\ Ready
    /\ "engagement" \in DOMAIN results
    /\ \E run \in EngagementLoop(Len(metrics), control_data, treatment_data) :
           SameAnswers("engagement", run) /\ Finish("engagement", run, "repeated")
    /\ UNCHANGED <<data, control_data, treatment_data, roi, files, pending, scripts>>

\* a new session, one analysis of one metric, and that analysis repeated
NextTwice ==
    \/ NewSession
    \/ \E c \in Samples, t \in Samples :
           /\ results = EmptyDict
           /\ analyze_web_vitals(Rows(vitals[1], ControlGroup, c),
                                 Rows(vitals[1], TreatmentGroup, t))
    \/ \E c \in Samples, t \in Samples :
           /\ results = EmptyDict
           /\ analyze_security_metrics(Rows(ScanDuration, ControlGroup, c),
                                       Rows(ScanDuration, TreatmentGroup, t))
    \/ \E c \in Samples, t \in Samples :
           /\ results = EmptyDict
           /\ analyze_user_engagement(Rows(metrics[1], ControlGroup, c),
                                      Rows(metrics[1], TreatmentGroup, t))
    \/ RepeatWebVitals
    \/ RepeatSecurity
    \/ RepeatEngagement

SpecTwice == Init /\ [][NextTwice]_vars

\* C13: an analysis called a second time on the same control and treatment data
\* returns the reports of the first call and leaves the results as the first call
\* left them.
C13_RepeatedCallChangesNothing == [][pc' = "repeated" => results' = results]_vars

\* a web-vitals report after the repeated call
C13_Witness ==
    /\ pc = "repeated"
    /\ vitals[1] \in DOMAIN Entries("web_vitals")
    /\ Entries("web_vitals")[vitals[1]].mean_control # Entries("web_vitals")[vitals[1]].mean_treatment

----------------------------------------------------------------------------
(* C14: analyses of one session run on worker threads *)

Workers == {1, 2}

Job(category, metric, control, treatment) ==
    [category       |-> category,
     control_data   |-> Rows(metric, ControlGroup, control),
     treatment_data |-> Rows(metric, TreatmentGroup, treatment)]

\* the analysis calls handed to the workers: two web-vitals metrics, scan duration
\* and one engagement metric, each with its own frames
Jobs ==
    {Job("web_vitals", vitals[1], <<2>>, <<1>>),
     Job("web_vitals", vitals[2], <<3>>, <<1>>),
     Job("security", ScanDuration, <<1200>>, <<600>>),
     Job("engagement", metrics[2], <<1>>, <<2>>)}

\* the ways the analysis of a category can end on the given frames
RunsOf(category, cd, td) ==
    IF category = "web_vitals" THEN WebVitalsLoop(Len(vitals), cd, td)
    ELSE IF category = "security" THEN SecurityRuns(cd, td)
    ELSE EngagementLoop(Len(metrics), cd, td)

\* a worker's write-back of the whole accumulator as it saw it when its call began
C14_WrittenFromSnapshot(acc, task) == Put(task.seen, task.category, task.run.results)

\* self.results[category] = results: one item assignment on the shared dict
Written(acc, task) == Put(acc, task.category, task.run.results)

\* a worker enters an analysis and computes its local results dict, lines 89-145,
\* 171-234, 249-280; seen is self.results at that moment, which the call does not read
Begin(w, job) ==
    /\ pc = "idle"
    /\ w \notin DOMAIN pending
    /\ \E run \in RunsOf(job.category, job.control_data, job.treatment_data) :
           /\ ~ run.raised
           /\ pending' = Put(pending, w, [category |-> job.category,
                                          run      |-> run,
                                          seen     |-> results,
                                          written  |-> FALSE])
    /\ UNCHANGED <<data, results, pc, control_data, treatment_data, lib_calls, roi, files, scripts>>

\* the worker's call reaches its last statement, lines 157, 236, 288
Store(w) ==
    /\ w \in DOMAIN pending
    /\ ~ pending[w].written
    /\ results' = Written(results, pending[w])
    /\ lib_calls' = pending[w].run.calls
    /\ pending' = [pending EXCEPT ![w].written = TRUE]
    /\ UNCHANGED <<data, pc, control_data, treatment_data, roi, files, scripts>>

NextPar ==
    \/ NewSession
    \/ \E w \in Workers, job \in Jobs : Begin(w, job)
    \/ \E w \in Workers : Store(w)

SpecPar == Init /\ [][NextPar]_vars

Stored == {w \in DOMAIN pending : pending[w].written}

\* C14 as claimed: analyses of different metrics or categories run in any interleaving
\* lose nothing: every entry a finished call wrote is in the results, as written.
C14_NoEntryLost ==
    (\A v, w \in DOMAIN pending :
         v # w => \/ pending[v].category # pending[w].category
                  \/ DOMAIN pending[v].run.results \cap DOMAIN pending[w].run.results = {})
    => \A w \in Stored :
           /\ pending[w].category \in DOMAIN results
           /\ \A m \in DOMAIN pending[w].run.results :
                  /\ m \in DOMAIN results[pending[w].category]
                  /\ results[pending[w].category][m] = pending[w].run.results[m]

\* C14 amended: analyses of different categories are independent: in any interleaving
\* of their computations and writes the results hold, for every finished call, exactly
\* the mapping that call computed, which is what running them one after the other
\* gives; analyses of the same category are not, each write replacing the category.
C14_CategoriesIndependent ==
    (\A v, w \in DOMAIN pending : v # w => pending[v].category # pending[w].category)
    => /\ DOMAIN results = {pending[w].category : w \in Stored}
       /\ \A w \in Stored : results[pending[w].category] = pending[w].run.results

\* two calls of different categories, both begun before either wrote, both finished
C14_Witness ==
    /\ Stored = Workers
    /\ pending[1].category # pending[2].category
    /\ pending[1].seen = EmptyDict
    /\ pending[2].seen = EmptyDict
    /\ Cardinality(DOMAIN results) = 2

----------------------------------------------------------------------------
(* C15 *)

\* the fields of a full report: the keys of results[vital], lines 133-145
ReportFields ==
    {"test_used", "p_value", "cohens_d", "ci_lower", "ci_upper", "mean_control",
     "mean_treatment", "improvement_percent", "significant", "sample_size_control",
     "sample_size_treatment"}

\* the keys of results[metric] in analyze_user_engagement, lines 273-280
EngagementFields ==
    {"mean_control", "mean_treatment", "improvement_percent", "p_value", "cohens_d",
     "significant"}

\* the keys of the security results, lines 199-206
DetectionFieldNames ==
    {"detection_time_reduction", "mean_control_minutes", "mean_treatment_minutes",
     "p_value", "cohens_d", "significant"}

\* C15 as claimed: every category maps metric names to reports, and every report has
\* all the fields: test used, p-value, effect size, both confidence bounds, both means,
\* both sample sizes, the significance flag and the improvement percent.
C15_EveryReportComplete ==
    \A cat \in DOMAIN results :
        \A m \in DOMAIN results[cat] : ReportFields \subseteq DOMAIN results[cat][m]

\* C15 amended: only web_vitals maps metric names to reports with all these fields;
\* an engagement report has the two means, improvement_percent, p_value, cohens_d and
\* significant only; security is not keyed by metric: it is one flat mapping holding
\* all six detection-time fields or none of them, plus accuracy and
\* false_positive_rate (both or neither).
C15_FieldsPerCategory ==
    /\ DOMAIN results \subseteq {"web_vitals", "security", "engagement"}
    /\ \A m \in DOMAIN Entries("web_vitals") :
           m \in Range(vitals) /\ DOMAIN Entries("web_vitals")[m] = ReportFields
    /\ \A m \in DOMAIN Entries("engagement") :
           m \in Range(metrics) /\ DOMAIN Entries("engagement")[m] = EngagementFields
    /\ DOMAIN Entries("security") \in
           { fields \cup accuracy :
               fields \in {{}, DetectionFieldNames},
               accuracy \in {{}, {"accuracy", "false_positive_rate"}} }

\* a finished run with reports in all three categories
C15_Witness ==
    /\ pc = "done"
    /\ DOMAIN Entries("web_vitals") # {}
    /\ DOMAIN Entries("engagement") # {}
    /\ DOMAIN Entries("security") = DetectionFieldNames \cup {"accuracy", "false_positive_rate"}

----------------------------------------------------------------------------
(* C16: samples around the 5000-observation cap *)

\* n observations of mean 1, the first two marked
MarkedHead(n) == [i \in 1..n |-> IF i = 1 THEN 0 ELSE IF i = 2 THEN 2 ELSE 1]

\* n observations of mean 1, the last two marked
MarkedTail(n) == [i \in 1..n |-> IF i = n THEN 0 ELSE IF i = n - 1 THEN 2 ELSE 1]

LongSamples == {MarkedHead(NormalityCap), MarkedHead(NormalityCap + 1),
                MarkedTail(NormalityCap), MarkedTail(NormalityCap + 1)}

ShortSample == <<0, 2, 1>>

\* a new session and one analyze_web_vitals call with one long sample
NextNormality ==
    \/ NewSession
    \/ \E long \in LongSamples :
           /\ results = EmptyDict
           /\ analyze_web_vitals(Rows(vitals[1], ControlGroup, long),
                                 Rows(vitals[1], TreatmentGroup, ShortSample))
    \/ \E long \in LongSamples :
           /\ results = EmptyDict
           /\ analyze_web_vitals(Rows(vitals[1], ControlGroup, ShortSample),
                                 Rows(vitals[1], TreatmentGroup, long))

SpecNormality == Init /\ [][NextNormality]_vars

\* x is the first 5000 observations of sample in their order, or all of a sample of
\* 5000 or fewer
IsCappedPrefix(x, sample) ==
    IF Len(sample) > 5000
    THEN Len(x) = 5000 /\ \A i \in 1..5000 : x[i] = sample[i]
    ELSE x = sample

\* C16: the normality check of a sample of more than 5000 observations is run on
\* exactly its first 5000 observations in their original order; a sample of 5000 or
\* fewer is checked whole.
C16_NormalityOnPrefix ==
    \A m \in DOMAIN lib_calls :
        lib_calls[m].normality =>
            /\ IsCappedPrefix(lib_calls[m].shapiro_control, Control(m))
            /\ IsCappedPrefix(lib_calls[m].shapiro_treatment, Treatment(m))

\* a control sample of 5001 observations ending in the marks, checked on 5000 of them
C16_Witness ==
    \E m \in DOMAIN lib_calls :
        /\ Len(Control(m)) = 5001
        /\ Control(m)[5001] = 0
        /\ Len(lib_calls[m].shapiro_control) = 5000
        /\ lib_calls[m].shapiro_control[5000] = 2

----------------------------------------------------------------------------
(* C17 *)

\* improvement * mean_control = direction * (mean_control - mean_treatment) * 100, on
\* the stored fractions; direction is 1 for lower-is-better, -1 for higher-is-better
IsDirectedImprovement(improvement, mean_control, mean_treatment, direction) ==
    /\ improvement.kind = "num"
    /\ improvement.num * mean_control.num * mean_treatment.den
           = direction * 100 * improvement.den
               * (mean_control.num * mean_treatment.den - mean_treatment.num * mean_control.den)

\* C17: for a positive control mean, the stored improvement of a web-vitals report and
\* of the security scan duration is (mean_control - mean_treatment) / mean_control * 100
\* and that of an engagement report (mean_treatment - mean_control) / mean_control * 100;
\* so a treatment mean below the control mean gives a positive improvement in the
\* first case and a negative one in the second.
C17_ImprovementIsDirectional ==
    /\ \A m \in DOMAIN Entries("web_vitals") :
           LET r == Entries("web_vitals")[m]
           IN  FGt(r.mean_control, F(0)) =>
                   /\ IsDirectedImprovement(r.improvement_percent, r.mean_control,
                                            r.mean_treatment, 1)
                   /\ FLt(r.mean_treatment, r.mean_control) => r.improvement_percent.num > 0
    /\ "detection_time_reduction" \in DOMAIN Entries("security") =>
           LET r == Entries("security")
           IN  FGt(r.mean_control_minutes, F(0)) =>
                   /\ IsDirectedImprovement(r.detection_time_reduction, r.mean_control_minutes,
                                            r.mean_treatment_minutes, 1)
                   /\ FLt(r.mean_treatment_minutes, r.mean_control_minutes) =>
                          r.detection_time_reduction.num > 0
    /\ \A m \in DOMAIN Entries("engagement") :
           LET r == Entries("engagement")[m]
           IN  FGt(r.mean_control, F(0)) =>
                   /\ IsDirectedImprovement(r.improvement_percent, r.mean_control,
                                            r.mean_treatment, -1)
                   /\ FLt(r.mean_treatment, r.mean_control) => r.improvement_percent.num < 0

\* an engagement report whose treatment mean is half the control mean: -50
C17_Witness ==
    \E m \in DOMAIN Entries("engagement") :
        /\ Entries("engagement")[m].mean_control = F(1)
        /\ Entries("engagement")[m].mean_treatment = Num(1, 2)
        /\ Entries("engagement")[m].improvement_percent = F(-50)

----------------------------------------------------------------------------
(* C18 *)

\* center + side * half >= 0, for center = sgn * sqrt(num/den) and half = sqrt(num/den)
SignedBoundNonNeg(b) ==
    LET center_squared == Num(b.center.num, b.center.den)
        half_squared   == Num(b.half.num, b.half.den)
    IN  IF b.side = 1
        THEN b.center.sgn >= 0 \/ ~ FLt(half_squared, center_squared)
        ELSE b.center.sgn > 0 /\ ~ FLt(center_squared, half_squared)

\* the stored number is the end of the interval: abs() was not applied or changed nothing
IsIntervalEnd(b) == ~ b.abs \/ SignedBoundNonNeg(b)

\* C18: in every web-vitals report ci_lower is d - 1.96*se and ci_upper is d + 1.96*se,
\* the two ends of the interval around the standardized mean difference d.
C18_StoredBoundsAreInterval ==
    \A m \in DOMAIN Entries("web_vitals") :
        /\ Entries("web_vitals")[m].ci_lower.side = -1
        /\ Entries("web_vitals")[m].ci_upper.side = 1
        /\ IsIntervalEnd(Entries("web_vitals")[m].ci_lower)
        /\ IsIntervalEnd(Entries("web_vitals")[m].ci_upper)

----------------------------------------------------------------------------
(* C19 *)

\* the effect size stored for the metric of a call record
StoredEffect(m) ==
    IF m = ScanDuration THEN Entries("security").cohens_d ELSE Entries("web_vitals")[m].cohens_d

StoredFlag(m) ==
    IF m = ScanDuration THEN Entries("security").significant
    ELSE Entries("web_vitals")[m].significant

StoredPValue(m) ==
    IF m = ScanDuration THEN Entries("security").p_value ELSE Entries("web_vitals")[m].p_value

\* C19: the label printed for an effect size d is negligible for |d| < 0.2, small for
\* 0.2 <= |d| < 0.5, medium for 0.5 <= |d| < 0.8 and large from 0.8 on (0.2, 0.5 and 0.8
\* themselves falling in the upper bucket), the same for d and -d; the label is not a
\* field of the report and the significant flag follows the p-value whatever the label.
C19_LabelByBucket ==
    /\ interpret_cohens_d(Root(1, Num(1, 25))) = "small"
    /\ interpret_cohens_d(Root(1, Num(1, 4))) = "medium"
    /\ interpret_cohens_d(Root(-1, Num(16, 25))) = "large"
    /\ interpret_cohens_d(Root(-1, Num(399, 10000))) = "negligible"
    /\ \A m \in DOMAIN lib_calls :
           "effect_label" \in DOMAIN lib_calls[m] =>
               LET d         == StoredEffect(m)
                   d_squared == Num(d.num, d.den)
                   label     == lib_calls[m].effect_label
               IN  /\ (label = "negligible") = FLt(d_squared, Num(4, 100))
                   /\ (label = "small") = (~ FLt(d_squared, Num(4, 100))
                                              /\ FLt(d_squared, Num(25, 100)))
                   /\ (label = "medium") = (~ FLt(d_squared, Num(25, 100))
                                               /\ FLt(d_squared, Num(64, 100)))
                   /\ (label = "large") = ~ FLt(d_squared, Num(64, 100))
                   /\ interpret_cohens_d([d EXCEPT !.sgn = -1]) = label
                   /\ interpret_cohens_d([d EXCEPT !.sgn = 1]) = label
                   /\ StoredFlag(m) = BelowFivePercent(StoredPValue(m))
                   /\ \A cat \in DOMAIN results : "effect_label" \notin DOMAIN results[cat]
                   /\ m # ScanDuration => "effect_label" \notin DOMAIN Entries("web_vitals")[m]

\* a large effect that is not significant
C19_Witness ==
    \E m \in DOMAIN Entries("web_vitals") :
        /\ lib_calls[m].effect_label = "large"
        /\ ~ Entries("web_vitals")[m].significant
        /\ Entries("web_vitals")[m].p_value = Num(3, 50)

----------------------------------------------------------------------------
(* C20: end-to-end scenario A *)

ScenarioControl == <<10, 12, 11, 13, 10>>

ScenarioTreatment == <<7, 8, 9, 7, 8>>

\* a new session and one lower-is-better analysis of the scenario's samples
NextScenario ==
    \/ NewSession
    \/ \E vital \in Range(vitals) :
           /\ results = EmptyDict
           /\ analyze_web_vitals(Rows(vital, ControlGroup, ScenarioControl),
                                 Rows(vital, TreatmentGroup, ScenarioTreatment))
    \/ /\ results = EmptyDict
       /\ analyze_security_metrics(Rows(ScanDuration, ControlGroup, ScenarioControl),
                                   Rows(ScanDuration, TreatmentGroup, ScenarioTreatment))

SpecScenario == Init /\ [][NextScenario]_vars

\* the improvement stored for the metric of a call record
StoredImprovement(m) ==
    IF m = ScanDuration THEN Entries("security").detection_time_reduction
    ELSE Entries("web_vitals")[m].improvement_percent

----------------------------------------------------------------------------
(* C21: sample extraction *)

\* the positions of the frame whose row belongs to the metric, to one of the groups and
\* carries the value
Matching(frame, metric, groups, value) ==
    { i \in 1..Len(frame) : /\ frame[i].metric_name = metric
                            /\ \E g \in 1..Len(groups) : groups[g] = frame[i].groupId
                            /\ frame[i].value = value }

\* the sample holds each value as often as the frame has matching rows carrying it
ExactlyMatching(sample, frame, metric, groups) ==
    \A value \in {frame[i].value : i \in 1..Len(frame)} \cup Range(sample) :
        Cardinality({ i \in 1..Len(sample) : sample[i] = value })
            = Cardinality(Matching(frame, metric, groups, value))

\* C21: when run_complete_analysis splits the loaded frame by disjoint group lists, the
\* control and treatment sample of every metric hold exactly the values of the rows whose
\* metric_name is that metric and whose group is in the list; no row is in both frames,
\* rows of an unlisted group or of a metric nobody asks for are in no sample, and the
\* split raises nothing.
C21_SamplesAreTheMatchingRows ==
    [][ (data # None /\ pc' = "web_vitals") =>
          \E cg \in ControlGroups, tg \in TreatmentGroups :
              /\ \A m \in MetricNames :
                     /\ ExactlyMatching(ValuesOf(control_data', m), data.rows, m, cg)
                     /\ ExactlyMatching(ValuesOf(treatment_data', m), data.rows, m, tg)
              /\ Range(control_data') \cap Range(treatment_data') = {}
              /\ \A r \in Range(control_data') \cup Range(treatment_data') :
                     r.groupId # "pilot"
              /\ pc' # "failed" ]_vars

\* a finished run on an export with a row of an unlisted group and a row of an unknown
\* metric, both groups listed, the fid samples being the rows of each group
C21_Witness ==
    /\ pc = "done"
    /\ data # None
    /\ \E i \in 1..Len(data.rows) : data.rows[i].groupId = "pilot"
    /\ \E i \in 1..Len(data.rows) : data.rows[i].metric_name = "page_views"
    /\ Control("core_web_vitals_fid") = <<2>>
    /\ Treatment("core_web_vitals_fid") = <<1>>

----------------------------------------------------------------------------
(* C22: the stored bounds around the stored effect size *)

\* C22: in every web-vitals report the stored bounds bracket the stored effect size,
\* ci_lower <= cohens_d <= ci_upper, whatever the sign of the computed d and whatever
\* the sample sizes.
C22_BoundsBracketEffect ==
    \A m \in DOMAIN Entries("web_vitals") :
        /\ StoredLowerAtMostEffect(Entries("web_vitals")[m].ci_lower)
        /\ EffectAtMostStoredUpper(Entries("web_vitals")[m].ci_upper)

----------------------------------------------------------------------------
(* C23: run_complete_analysis without data *)

\* the positions of a run that got past the guard
Running == {"web_vitals", "security", "engagement", "roi", "plots", "latex", "save"}

\* C23: run_complete_analysis called while data is None returns at once: no analysis,
\* no ROI computation, no plot, no table and no file is made, and results (like every
\* other field of the session) is left as it was; a run is under way only with data loaded.
C23_NoDataNoRun ==
    [][ /\ (pc # "no_data" /\ pc' = "no_data") =>
              /\ data = None
              /\ results' = results
              /\ lib_calls' = lib_calls
              /\ roi' = roi
              /\ files' = files
              /\ control_data' = control_data
              /\ treatment_data' = treatment_data
              /\ data' = data
        /\ pc' \in Running => data' # None
        /\ (data = None /\ pc \notin Running) => pc' \notin Running ]_vars

\* a session that analysed web vitals directly and then asked for the complete analysis
\* without loading data
C23_Witness ==
    /\ pc = "no_data"
    /\ data = None
    /\ "web_vitals" \in DOMAIN results
    /\ results["web_vitals"] # EmptyDict
    /\ roi = None

----------------------------------------------------------------------------
(* C24: the order of the pipeline *)

\* the step that follows each position of a run
StepAfter ==
    [p \in Running |->
        CASE p = "web_vitals" -> "security"
          [] p = "security"   -> "engagement"
          [] p = "engagement" -> "roi"
          [] p = "roi"        -> "plots"
          [] p = "plots"      -> "latex"
          [] p = "latex"      -> "save"
          [] p = "save"       -> "done"]

Categories == {"web_vitals", "security", "engagement"}

\* the category written by the step at a position, if any
CategoryOf(p) == IF p \in Categories THEN {p} ELSE {}

\* C24: with data loaded run_complete_analysis goes through web vitals, security,
\* engagement, ROI, plots, LaTeX tables and save in this order, a step that raises
\* ending the run; each analysis writes its own category only, the ROI step only the
\* ROI report, and the accumulator is not touched after the engagement step; when the
\* results are saved the accumulator has exactly the keys web_vitals, security and
\* engagement and the ROI report, already computed, is kept outside it.
C24_FixedOrder ==
    [][ /\ (pc \in Running /\ pc' # pc) =>
               /\ pc' \in {StepAfter[pc], "failed", "plots_failed"}
               /\ pc' = "failed" => pc \in Categories
               /\ pc' = "plots_failed" => pc = "plots"
               /\ \A cat \in (DOMAIN results \cup DOMAIN results') \ CategoryOf(pc) :
                      /\ cat \in DOMAIN results
                      /\ cat \in DOMAIN results'
                      /\ results'[cat] = results[cat]
               /\ pc # "roi" => roi' = roi
               /\ pc \notin {"plots", "save"} => files' = files
        /\ (pc' = "done" /\ pc # "done") =>
               /\ pc = "save"
               /\ "statistical_results.json" \in files'
        /\ pc' \in {"save", "done"} =>
               /\ DOMAIN results' = Categories
               /\ roi' # None
               /\ roi' \notin {results'[cat] : cat \in Categories} ]_vars

\* the moment of saving a run on loaded data whose groups gave no report at all: the
\* three categories are there, empty, the plot is written and the ROI report exists
C24_Witness ==
    /\ pc = "save"
    /\ data # None
    /\ DOMAIN results = Categories
    /\ \A cat \in Categories : results[cat] = EmptyDict
    /\ "statistical_analysis_results.png" \in files
    /\ roi # None

----------------------------------------------------------------------------
(* C25: detection accuracy *)

\* a new session and one security analysis of treatment rows holding the two counts
NextAccuracy ==
    \/ NewSession
    \/ \E v \in Samples, f \in Samples :
           /\ results = EmptyDict
           /\ analyze_security_metrics(<<>>, Rows("security_vulnerabilities_total", TreatmentGroup, v)
                                             \o Rows("security_false_positives", TreatmentGroup, f))

SpecAccuracy == Init /\ [][NextAccuracy]_vars

\* C25: once analyze_security_metrics has stored its report, if the treatment data has
\* both vulnerability and false-positive values the report carries accuracy and
\* false_positive_rate, with accuracy + false_positive_rate = 100 when the detections
\* sum to more than 0 and both 0 when they sum to 0; if either sample is empty the
\* report carries neither field.
C25_AccuracyAndFalsePositives ==
    "security" \in DOMAIN results =>
        LET v   == Treatment("security_vulnerabilities_total")
            f   == Treatment("security_false_positives")
            sec == results["security"]
        IN  IF Len(v) > 0 /\ Len(f) > 0
            THEN /\ {"accuracy", "false_positive_rate"} \subseteq DOMAIN sec
                 /\ SumSeq(v) > 0 => FAdd(sec.accuracy, sec.false_positive_rate) = F(100)
                 /\ SumSeq(v) = 0 => sec.accuracy = F(0) /\ sec.false_positive_rate = F(0)
            ELSE {"accuracy", "false_positive_rate"} \cap DOMAIN sec = {}

\* two detections of which one is a false positive: accuracy 50, false-positive rate 50
C25_Witness ==
    /\ "security" \in DOMAIN results
    /\ SumSeq(Treatment("security_vulnerabilities_total")) = 2
    /\ SumSeq(Treatment("security_false_positives")) = 1
    /\ Entries("security").accuracy = F(50)
    /\ Entries("security").false_positive_rate = F(50)

----------------------------------------------------------------------------
(* C26: when cleanup_all_workflows deletes *)

\* C26: a DELETE request is sent only if GITHUB_TOKEN is set, more runs than
\* TARGET_TOTAL_RUNS were fetched, DRY_RUN is false and the user typed exactly DELETE;
\* runs leave the repository only through these requests, and an execution that ends
\* in any other way has sent none and leaves the repository as it found it.
C26_DeleteOnlyWhenConfirmed ==
    /\ cleanup_all.requests # <<>> =>
           /\ cleanup_all.token
           /\ Len(cleanup_all.all_runs) > TARGET_TOTAL_RUNS
           /\ ~ cleanup_all.DRY_RUN
           /\ cleanup_all.confirm = "DELETE"
    /\ cleanup_all.found \ cleanup_all.server \subseteq Range(cleanup_all.requests)
    /\ cleanup_all.server \subseteq cleanup_all.found
    /\ (cleanup_all.step = "ended" /\ cleanup_all.said # "completed") =>
           /\ cleanup_all.requests = <<>>
           /\ cleanup_all.server = cleanup_all.found

\* a confirmed execution that has deleted a run
C26_Witness ==
    /\ cleanup_all.confirm = "DELETE"
    /\ cleanup_all.requests # <<>>
    /\ cleanup_all.server # cleanup_all.found

----------------------------------------------------------------------------
(* C27: the deletion plan *)

\* C27: the plan splits the fetched runs, sorted by created_at, into the
\* (total - TARGET_TOTAL_RUNS) oldest and the TARGET_TOTAL_RUNS most recent; DELETE
\* requests go to the runs of the first part only, one each, oldest first, a failed
\* request being followed by the next, so that a completed execution has tried them
\* all; no run of the second part is requested or leaves the repository.
C27_OldestRunsOnly ==
    LET to_delete == cleanup_all.runs_to_delete_list
        to_keep   == cleanup_all.runs_to_keep
        planned   == \/ cleanup_all.step \in {"confirm", "delete"}
                     \/ cleanup_all.said \in {"dry_run", "cancelled", "completed"}
    IN  /\ ~ planned => cleanup_all.requests = <<>>
        /\ planned
           => /\ to_delete \o to_keep = cleanup_all.all_runs
              /\ Len(to_keep) = TARGET_TOTAL_RUNS
              /\ Len(to_delete) = Len(cleanup_all.all_runs) - TARGET_TOTAL_RUNS
              /\ \A i \in DOMAIN to_delete, j \in DOMAIN to_keep :
                     to_delete[i].created_at <= to_keep[j].created_at
              /\ cleanup_all.requests = [k \in 1..cleanup_all.attempted |-> to_delete[k].id]
              /\ \A a, b \in DOMAIN cleanup_all.requests :
                     a # b => cleanup_all.requests[a] # cleanup_all.requests[b]
              /\ \A j \in DOMAIN to_keep :
                     /\ to_keep[j].id \in cleanup_all.server
                     /\ to_keep[j].id \notin Range(cleanup_all.requests)
              /\ cleanup_all.said = "completed" => cleanup_all.attempted = Len(to_delete)

\* a completed execution whose first request failed and a later one succeeded
C27_Witness ==
    /\ cleanup_all.said = "completed"
    /\ Len(cleanup_all.requests) >= 2
    /\ cleanup_all.requests[1] \in cleanup_all.server
    /\ cleanup_all.deleted_count >= 1

----------------------------------------------------------------------------
(* C28: what 'Target achieved' means *)

\* C28: when the script has reported 'Cleanup completed' and 'Target achieved', the
\* repository holds exactly TARGET_TOTAL_RUNS runs.
C28_TargetAchieved ==
    cleanup_all.said = "completed" => Cardinality(cleanup_all.server) = TARGET_TOTAL_RUNS

----------------------------------------------------------------------------
(* C29: what cleanup_workflows deletes *)

\* the user's answer counts as y or yes
Confirmed == StripLower(cleanup.confirm) \in {"y", "yes"}

\* analyze_and_cleanup got as far as its deletion plan
Planned ==
    \/ cleanup.step \in {"confirm", "delete"}
    \/ cleanup.said \in {"dry_run", "cancelled", "completed"}
    \/ cleanup.requests # <<>>

\* the ids of the first n runs to delete
IdsToDelete(n) == [k \in 1..n |-> cleanup.runs_to_delete[k].id]

\* the ids the DELETE requests were sent for, in the order sent
IdsRequested == [k \in 1..Len(cleanup.requests) |-> cleanup.requests[k].id]

\* C29 as claimed: analyze_and_cleanup deletes nothing with MAX_RUNS_TO_KEEP or fewer
\* runs, with DRY_RUN, or without the answer y or yes; otherwise, once the script has
\* ended, DELETE requests were sent for exactly the runs ranked after the first
\* MAX_RUNS_TO_KEEP by run_number, and deleted_count is the number answered 204.
C29_DeletesExactlyTheOldRuns ==
    /\ cleanup.requests # <<>> =>
           Len(cleanup.runs) > MAX_RUNS_TO_KEEP /\ ~ cleanup.DRY_RUN /\ Confirmed
    /\ (cleanup.step = "ended" /\ Confirmed) =>
           IdsRequested = IdsToDelete(Len(cleanup.runs_to_delete))
    /\ cleanup.deleted_count
           = Cardinality({ k \in DOMAIN cleanup.requests : cleanup.requests[k].status = 204 })

\* C29 amended: nothing is requested with MAX_RUNS_TO_KEEP or fewer runs, with DRY_RUN,
\* or when the answer, stripped and lowercased, is not y or yes; otherwise the runs
\* are sorted by run_number, highest first, the first MAX_RUNS_TO_KEEP are kept and
\* never requested, and DELETE requests go to the others in rank order, one each, a
\* request answered 401 or 403 or raising an exception ending the script with the
\* remaining runs not requested; deleted_count is the number of requests answered 204,
\* and those are the runs that left the workflow.
C29_DeletesOldRunsUntilDenied ==
    /\ cleanup.requests # <<>> =>
           Len(cleanup.runs) > MAX_RUNS_TO_KEEP /\ ~ cleanup.DRY_RUN /\ Confirmed
    /\ cleanup.said \in {"no_cleanup", "dry_run", "cancelled"} =>
           cleanup.requests = <<>> /\ cleanup.server = cleanup.found
    /\ Planned =>
           /\ cleanup.runs_to_delete
                  = SubSeq(cleanup.runs, MAX_RUNS_TO_KEEP + 1, Len(cleanup.runs))
           /\ \A i \in 1..MAX_RUNS_TO_KEEP, j \in DOMAIN cleanup.runs_to_delete :
                  /\ cleanup.runs[i].run_number >= cleanup.runs_to_delete[j].run_number
                  /\ cleanup.runs[i].run_number \in cleanup.server
           /\ Len(cleanup.requests) <= Len(cleanup.runs_to_delete)
           /\ IdsRequested = IdsToDelete(Len(cleanup.requests))
           /\ cleanup.said = "completed" =>
                  Len(cleanup.requests) = Len(cleanup.runs_to_delete)
           /\ (cleanup.step = "ended" /\ Confirmed
                   /\ Len(cleanup.requests) < Len(cleanup.runs_to_delete)) =>
                  /\ cleanup.said \in {"denied", "error"}
                  /\ cleanup.requests[Len(cleanup.requests)].status \in Denied \cup {0}
    /\ cleanup.deleted_count
           = Cardinality({ k \in DOMAIN cleanup.requests : cleanup.requests[k].status = 204 })
    /\ cleanup.found \ cleanup.server
           = { cleanup.requests[k].id - 1000 :
                 k \in { n \in DOMAIN cleanup.requests : cleanup.requests[n].status = 204 } }

\* a completed execution, confirmed with ' yes', in which one request was answered 404
\* and another 204
C29_Witness ==
    /\ cleanup.said = "completed"
    /\ cleanup.confirm = " yes"
    /\ \E k \in DOMAIN cleanup.requests : cleanup.requests[k].status = 404
    /\ cleanup.deleted_count >= 1

----------------------------------------------------------------------------
(* C30: the client's token and its Authorization header *)

\* C30: after any sequence of login, refresh_token, logout and set_token calls, whatever
\* the API answered, the session has an Authorization header exactly when token is not
\* None, and the header is then 'Bearer ' followed by the token; a login, refresh or
\* logout that failed leaves token and headers as they were; and a request that failed
\* comes back as an APIResponse with success = False.
C30_HeaderFollowsToken ==
    [][ /\ ("Authorization" \in DOMAIN client'.headers) <=> (client'.token # None)
        /\ "Authorization" \in DOMAIN client'.headers =>
               client'.headers.Authorization = <<"Bearer ", client'.token.str>>
        /\ (client'.call \in {"login", "refresh_token", "logout"}
                /\ ~ client'.result.success) =>
               /\ client'.token = client.token
               /\ client'.headers = client.headers
        /\ (client'.call \in {"login", "refresh_token", "logout"}
                /\ client'.result.status_code = 0) =>
               ~ client'.result.success ]_vars

====
